---- MODULE Spec2Model ----
(***************************************************************************)
(* Isocontour extraction (marching squares), cycle discovery and cycle     *)
(* stitching of cglib, as a state machine.  One action per kernel of       *)
(* to_graph (src/src/cglib/graph.py) and one per iteration of the          *)
(* stitching loop (src/src/cglib/stitch.py).                               *)
(*                                                                         *)
(* Numbers.  Grid samples are small integers.  Point coordinates are kept  *)
(* in fixed point: one cell is Unit model units (the code divides the cell *)
(* index by max(W, H); that uniform factor is left out, it changes no      *)
(* comparison).  euclidean_norm is the integer square root of the squared  *)
(* length scaled by Prec.  nan and inf are the reserved integers NaN, Inf. *)
(*                                                                         *)
(* Out-of-range indexing.  Taichi does no bounds check: an index of -1 or  *)
(* of E addresses the memory next to the field.  Every edge array of the   *)
(* model therefore has the two extra cells -1 and E; their first contents  *)
(* are arbitrary (chosen from Ghosts when the field is allocated), stores  *)
(* to them are kept, and oob records which fields were indexed out of      *)
(* range.                                                                  *)
(***************************************************************************)
EXTENDS Integers, Sequences, FiniteSets, TLC

VARIABLES shape, grid, binary_grid, points, previous_edge, next_edge,
          cycle_index, cycles, ghost, pc, iter, nb_cycles, last, oob, call,
          files, exit_code

vars == <<shape, grid, binary_grid, points, previous_edge, next_edge,
          cycle_index, cycles, ghost, pc, iter, nb_cycles, last, oob, call,
          files, exit_code>>

----------------------------------------------------------------------------
(* Sentinels and scales *)

NONE == -1
NaN == -1000000
Inf == 1000000
Unit == 4
Prec == 4

(* Bounds of the model *)
MaxDim == 3

NaNPoint == <<NaN, NaN>>
Origin == <<0, 0>>

(* (negative magnitude, positive magnitude) of the samples of a grid *)
Magnitudes == {<<1, 1>>, <<3, 1>>, <<1, 3>>, <<1, 0>>}

(* the 6 x 6 grids: a negative sea with positive samples at some sites *)
IslandShape == <<6, 6>>
IslandSites == {<<1, 1>>, <<1, 2>>, <<3, 3>>, <<4, 4>>, <<4, 1>>}

(* the 4 x 4 grids: a negative sea with positive samples at some of two
   corners and of one inner site *)
CornerShape == <<4, 4>>
CornerSites == {<<0, 0>>, <<0, 3>>, <<2, 2>>}

(* the 8 x 8 grids: a negative border around a checkerboard, which starts
   with either colour *)
DenseShape == <<8, 8>>
DenseSites(colour) ==
    {s \in (1 .. DenseShape[1] - 2) \X (1 .. DenseShape[2] - 2) :
        (s[1] + s[2]) % 2 = colour}

(* the 9 x 6 grids: islands at some of three sites in a sea of -1, the
   sample next to the middle site at -3 *)
FarShape == <<9, 6>>
FarSites == {<<3, 3>>, <<6, 4>>, <<7, 1>>}
FarDeep == <<3, 4>>

(* first contents of the cells -1 and E of points, next_edge, cycle_index *)
Ghosts ==
    { [pt |-> NaNPoint, nx |-> NONE, cy |-> NONE],
      [pt |-> NaNPoint, nx |-> 0,    cy |-> NONE],
      [pt |-> Origin,   nx |-> 0,    cy |-> 0],
      [pt |-> Origin,   nx |-> NONE, cy |-> 1],
      [pt |-> Origin,   nx |-> 6,    cy |-> 1] }

----------------------------------------------------------------------------
(* Shapes and indices *)

W == shape[1]
H == shape[2]

Samples(w, h) == (0 .. w - 1) \X (0 .. h - 1)

(* size of the edge fields, to_graph *)
EdgeCount(w, h) == w * (h + 1) + h * (w + 1) - 1
E == EdgeCount(W, H)
Edges == 0 .. E - 1
Idx == -1 .. E

(* the cells in the order of the serialized loops: x outer, y inner *)
CellSeq(w, h) == [k \in 1 .. w * h |-> <<(k - 1) \div h, (k - 1) % h>>]

IsCell(c) == c[1] # W - 1 /\ c[2] # H - 1
Cells == {c \in Samples(W, H) : IsCell(c)}

(* the cell-to-edge map with H vertical edges to a row instead of H + 1 *)
index2d_to_edge_index_stride_H(cell, shp) ==
    <<cell[1] * shp[2] + cell[2],
      shp[2] * (shp[1] + 1) + cell[1] * shp[2] + cell[2] + 1,
      (cell[1] + 1) * shp[2] + cell[2],
      shp[2] * (shp[1] + 1) + cell[1] * shp[2] + cell[2]>>

(* index2d_to_edge_index: <<top, right, bottom, left>> *)
index2d_to_edge_index(cell, shp) ==
    LET shape_x == shp[1]
        shape_y == shp[2]
        hoizontal_top_edge_index == cell[1] * shape_y + cell[2]
        horizontal_bottom_edge_index == (cell[1] + 1) * shape_y + cell[2]
        first_vertical_edge_index == shape_y * (shape_x + 1)
        vertical_left_edge_index ==
            first_vertical_edge_index + cell[1] * (shape_y + 1) + cell[2]
        vertical_right_edge_index ==
            first_vertical_edge_index + cell[1] * (shape_y + 1) + cell[2] + 1
    IN  <<hoizontal_top_edge_index, vertical_right_edge_index,
          horizontal_bottom_edge_index, vertical_left_edge_index>>

(* floor division and modulo as Taichi/Python compute them, b > 0 *)
FloorDiv(a, b) == a \div b
FloorMod(a, b) == a % b

(* the inverse map that takes the vertical edges H to a row, as the
   horizontal ones are *)
edge_1d_to_3d_index_rows_of_H(shp, edge) ==
    LET maximal_horizontal_index == shp[2] * (shp[1] + 1)
    IN  IF edge < maximal_horizontal_index
        THEN <<FloorDiv(edge, shp[2]), FloorMod(edge, shp[2]), 0>>
        ELSE <<FloorDiv(edge - maximal_horizontal_index, shp[2]),
               FloorMod(edge - maximal_horizontal_index, shp[2]), 1>>

edge_1d_to_3d_index(shp, edge) ==
    LET maximal_horizontal_index == shp[2] * (shp[1] + 1)
    IN  IF edge < maximal_horizontal_index
        THEN <<FloorDiv(edge, shp[2]), FloorMod(edge, shp[2]), 0>>
        ELSE <<FloorDiv(edge - maximal_horizontal_index, shp[2] + 1),
               FloorMod(edge - maximal_horizontal_index, shp[2] + 1), 1>>

edge_3d_to_1d_index(shp, x, y, z) ==
    LET r0 == IF z = 0
              THEN IF x < 0 \/ x > shp[1] \/ y < 0 \/ y >= shp[2]
                   THEN -1
                   ELSE x * shp[2] + y
              ELSE 0
    IN  IF z = 1
        THEN IF x < 0 \/ x >= shp[1] \/ y < 0 \/ y > shp[2]
             THEN -1
             ELSE shp[2] * (shp[1] + 1) + x * (shp[2] + 1) + y
        ELSE r0

----------------------------------------------------------------------------
(* Arithmetic on floats: integers, with NaN and Inf *)

IsNaN(a) == a = NaN

Add(a, b) == IF IsNaN(a) \/ IsNaN(b) THEN NaN ELSE a + b
Sub(a, b) == IF IsNaN(a) \/ IsNaN(b) THEN NaN ELSE a - b
Less(a, b) == ~IsNaN(a) /\ ~IsNaN(b) /\ a < b

RECURSIVE SqrtIter(_, _, _)
SqrtIter(n, lo, hi) ==
    IF lo >= hi THEN lo
    ELSE LET mid == (lo + hi + 1) \div 2
         IN  IF mid * mid <= n THEN SqrtIter(n, mid, hi)
                               ELSE SqrtIter(n, lo, mid - 1)

ISqrt(n) == SqrtIter(n, 0, n)

(* euclidean_norm of the difference of two points *)
euclidean_norm(p, q) ==
    IF IsNaN(p[1]) \/ IsNaN(p[2]) \/ IsNaN(q[1]) \/ IsNaN(q[2]) THEN NaN
    ELSE ISqrt(Prec * Prec * ((p[1] - q[1]) * (p[1] - q[1])
                              + (p[2] - q[2]) * (p[2] - q[2])))

(* exact quotient, either sign of the divisor *)
Quot(a, b) == IF b < 0 THEN (0 - a) \div (0 - b) ELSE a \div b

----------------------------------------------------------------------------
(* compute_binary_grid *)

Sign(v) == IF v < 0 THEN -1 ELSE IF v = 0 THEN 0 ELSE 1

(* the rule that takes zero with the negative values *)
BinaryOfZeroNegative(v) == IF Sign(v) = 1 THEN 1 ELSE 0

BinaryOf(v) == IF Sign(v) = -1 THEN 0 ELSE IF Sign(v) = 0 THEN 1 ELSE 1

compute_binary_grid(g) == [s \in DOMAIN g |-> BinaryOf(g[s])]

(* linear_interpolation(grid, point_0_index, point_1_index, 0.) *)
linear_interpolation(g, p0, p1) ==
    LET point_0 == <<Unit * p0[1], Unit * p0[2]>>
        point_1 == <<Unit * p1[1], Unit * p1[2]>>
    IN  IF p0[2] = p1[2]
        THEN <<point_0[1] + Quot((0 - g[p0]) * (point_1[1] - point_0[1]),
                                 g[p1] - g[p0]),
               point_1[2]>>
        ELSE <<point_0[1],
               point_0[2] + Quot((0 - g[p0]) * (point_1[2] - point_0[2]),
                                 g[p1] - g[p0])>>

(* A serialized loop over the cells that only stores into a field: stores[k]
   is the sequence of the <<field, index, value>> stores of cell number k of
   CellSeq, and each index ends with the value of the last store to it
   (SubSeq makes TLC hold the stores as a tuple, computed once) *)
ApplyStores(arr, cell_stores, field) ==
    LET stores == SubSeq(cell_stores, 1, Len(cell_stores))
        all == UNION {{k} \X (1 .. Len(stores[k])) : k \in DOMAIN stores}
        mine == {h \in all : stores[h[1]][h[2]][1] = field}
    IN  [i \in DOMAIN arr |->
            LET hits == {h \in mine : stores[h[1]][h[2]][2] = i}
            IN  IF hits = {} THEN arr[i]
                ELSE LET l == CHOOSE h \in hits :
                                  \A o \in hits :
                                      \/ o[1] < h[1]
                                      \/ (o[1] = h[1] /\ o[2] <= h[2])
                     IN  stores[l[1]][l[2]][3]]

(* the stores of a cell that computes the point of its top side as well *)
PointsCellWithTop(g, b, cell) ==
    LET x == cell[1]
        y == cell[2]
        edge_indexes == index2d_to_edge_index(cell, shape)
    IN  (IF b[<<x, y>>] # b[<<x, y + 1>>]
         THEN << <<"points", edge_indexes[1],
                   linear_interpolation(g, <<x, y>>, <<x, y + 1>>)>> >>
         ELSE <<>>)
        \o
        (IF b[<<x, y + 1>>] # b[<<x + 1, y + 1>>]
         THEN << <<"points", edge_indexes[2],
                   linear_interpolation(g, <<x, y + 1>>, <<x + 1, y + 1>>)>> >>
         ELSE <<>>)
        \o
        (IF b[<<x + 1, y + 1>>] # b[<<x + 1, y>>]
         THEN << <<"points", edge_indexes[3],
                   linear_interpolation(g, <<x + 1, y + 1>>, <<x + 1, y>>)>> >>
         ELSE <<>>)

(* the body of compute_points for one cell: its stores, in order *)
PointsCell(g, b, cell) ==
    LET x == cell[1]
        y == cell[2]
        edge_indexes == index2d_to_edge_index(cell, shape)
    IN  (IF b[<<x, y + 1>>] # b[<<x + 1, y + 1>>]
         THEN << <<"points", edge_indexes[2],
                   linear_interpolation(g, <<x, y + 1>>, <<x + 1, y + 1>>)>> >>
         ELSE <<>>)
        \o
        (IF b[<<x + 1, y + 1>>] # b[<<x + 1, y>>]
         THEN << <<"points", edge_indexes[3],
                   linear_interpolation(g, <<x + 1, y + 1>>, <<x + 1, y>>)>> >>
         ELSE <<>>)

compute_points(g, b, pts) ==
    ApplyStores(pts,
                [k \in 1 .. W * H |->
                    IF IsCell(CellSeq(W, H)[k])
                    THEN PointsCell(g, b, CellSeq(W, H)[k]) ELSE <<>>],
                "points")

----------------------------------------------------------------------------
(* compute_adajcency *)

Configuration(b, cell) ==
    1 * b[<<cell[1], cell[2]>>] + 2 * b[<<cell[1], cell[2] + 1>>]
    + 4 * b[<<cell[1] + 1, cell[2] + 1>>] + 8 * b[<<cell[1] + 1, cell[2]>>]

(* four times average_value: the sign is the sign of the average *)
AverageSum(g, cell) ==
    g[<<cell[1], cell[2]>>] + g[<<cell[1], cell[2] + 1>>]
    + g[<<cell[1] + 1, cell[2] + 1>>] + g[<<cell[1] + 1, cell[2]>>]

(* case 5 with the test average_value >= 0 *)
Case5ArcsZeroPositive(avg) ==
    IF avg >= 0 THEN << <<1, 2>>, <<3, 4>> >>
                ELSE << <<1, 4>>, <<3, 2>> >>

(* the two resolutions of case 5, as <<from slot, to slot>> of edge_indexes
   (1 top, 2 right, 3 bottom, 4 left) *)
Case5Arcs(avg) ==
    IF avg > 0 THEN << <<1, 2>>, <<3, 4>> >>
               ELSE << <<1, 4>>, <<3, 2>> >>

(* case 10 with its two branches exchanged *)
Case10ArcsSwapped(avg) ==
    IF avg < 0 THEN << <<4, 1>>, <<2, 3>> >>
               ELSE << <<2, 1>>, <<4, 3>> >>

(* the two resolutions of case 10 *)
Case10Arcs(avg) ==
    IF avg < 0 THEN << <<2, 1>>, <<4, 3>> >>
               ELSE << <<4, 1>>, <<2, 3>> >>

(* the assignments of one cell, as <<from slot, to slot>> of edge_indexes,
   in the order of the if-chain *)
CaseArcs(c, avg) ==
    IF c = 0 \/ c = 15 THEN <<>>
    ELSE IF c = 1 THEN << <<1, 4>> >>
    ELSE IF c = 2 THEN << <<2, 1>> >>
    ELSE IF c = 3 THEN << <<2, 4>> >>
    ELSE IF c = 4 THEN << <<3, 2>> >>
    ELSE IF c = 5 THEN Case5Arcs(avg)
    ELSE IF c = 6 THEN << <<3, 1>> >>
    ELSE IF c = 7 THEN << <<3, 4>> >>
    ELSE IF c = 8 THEN << <<4, 3>> >>
    ELSE IF c = 9 THEN << <<1, 3>> >>
    ELSE IF c = 10 THEN Case10Arcs(avg)
    ELSE IF c = 11 THEN << <<2, 3>> >>
    ELSE IF c = 12 THEN << <<4, 2>> >>
    ELSE IF c = 13 THEN << <<1, 2>> >>
    ELSE IF c = 14 THEN << <<4, 1>> >>
    ELSE <<>>

(* the two stores of an arc with from and to exchanged *)
StoreArcReversed(from, to) ==
    << <<"next_edge", to, from>>, <<"previous_edge", from, to>> >>

(* next_edge[from] = to; previous_edge[to] = from *)
StoreArc(from, to) ==
    << <<"next_edge", from, to>>, <<"previous_edge", to, from>> >>

(* next_edge[e] = -1; previous_edge[e] = -1 *)
StoreNone(e) ==
    << <<"next_edge", e, -1>>, <<"previous_edge", e, -1>> >>

(* the body of compute_adajcency for one cell: its stores, in order *)
AdjacencyCell(g, b, cell) ==
    LET edge_indexes == index2d_to_edge_index(cell, shape)
        c == Configuration(b, cell)
        arcs == CaseArcs(c, AverageSum(g, cell))
        from(a) == edge_indexes[arcs[a][1]]
        to(a) == edge_indexes[arcs[a][2]]
    IN  IF c = 0 \/ c = 15
        THEN StoreNone(edge_indexes[1]) \o StoreNone(edge_indexes[2])
             \o StoreNone(edge_indexes[3]) \o StoreNone(edge_indexes[4])
        ELSE IF Len(arcs) = 1
        THEN StoreArc(from(1), to(1))
        ELSE StoreArc(from(1), to(1)) \o StoreArc(from(2), to(2))

(* <<next_edge, previous_edge>> after the kernel *)
compute_adajcency(g, b, pv, nx) ==
    LET stores == [k \in 1 .. W * H |->
                      IF IsCell(CellSeq(W, H)[k])
                      THEN AdjacencyCell(g, b, CellSeq(W, H)[k]) ELSE <<>>]
    IN  << ApplyStores(nx, stores, "next_edge"),
           ApplyStores(pv, stores, "previous_edge") >>

----------------------------------------------------------------------------
(* Field allocation of to_graph: fill, with arbitrary cells -1 and E *)

Filled(v, gv) == [i \in Idx |-> IF i \in Edges THEN v ELSE gv]

----------------------------------------------------------------------------
(* Initial states: the grid has been loaded, nothing is computed *)

GridOf(w, h, pos, mag) ==
    [s \in Samples(w, h) |-> IF s \in pos THEN mag[2] ELSE 0 - mag[1]]

InitSmall ==
    \E w \in 2 .. MaxDim, h \in 2 .. MaxDim :
        \E pos \in SUBSET Samples(w, h), mag \in Magnitudes :
            /\ shape = <<w, h>>
            /\ grid = GridOf(w, h, pos, mag)

InitIslands ==
    \E pos \in SUBSET IslandSites, mag \in Magnitudes :
        /\ shape = IslandShape
        /\ grid = GridOf(IslandShape[1], IslandShape[2], pos, mag)

(* the files main reads and writes, for the input name "name"; exit_code is
   NONE while the process runs *)
FieldFile == "data/fields/name.npy"
NpDir == "data/np"
ContourArchive == "data/np/name_contour.npz"
CycleArchive == "data/np/name_cycle.npz"

(* call holds the last application of a function of index.py or of the
   binarization rule when these are run on their own; the pipeline leaves
   it alone *)
NoCall == [f |-> "none", arg |-> <<>>, res |-> <<>>]

InitCorners ==
    \E pos \in SUBSET CornerSites, mag \in Magnitudes :
        /\ shape = CornerShape
        /\ grid = GridOf(CornerShape[1], CornerShape[2], pos, mag)

InitDense ==
    \E colour \in {0, 1}, mag \in Magnitudes :
        /\ shape = DenseShape
        /\ grid = GridOf(DenseShape[1], DenseShape[2], DenseSites(colour), mag)

InitFar ==
    \E pos \in SUBSET FarSites :
        /\ shape = FarShape
        /\ grid = [GridOf(FarShape[1], FarShape[2], pos, <<1, 1>>)
                       EXCEPT ![FarDeep] = -3]

Init ==
    /\ InitSmall \/ InitIslands \/ InitCorners \/ InitDense \/ InitFar
    /\ binary_grid = [s \in DOMAIN grid |-> 0]
    /\ points = <<>>
    /\ previous_edge = <<>>
    /\ next_edge = <<>>
    /\ cycle_index = <<>>
    /\ cycles = <<>>
    /\ ghost = [pt |-> NaNPoint, nx |-> NONE, cy |-> NONE]
    /\ pc = "binary"
    /\ iter = 0
    /\ nb_cycles = 0
    /\ last = <<NONE, NONE>>
    /\ oob = {}
    /\ call = NoCall
    /\ files = {FieldFile, NpDir}
    /\ exit_code = NONE

----------------------------------------------------------------------------
(* to_graph, kernel by kernel *)

ComputeBinaryGrid ==
    /\ pc = "binary"
    /\ binary_grid' = compute_binary_grid(grid)
    /\ pc' = "points"
    /\ UNCHANGED <<files, exit_code, call>>
    /\ UNCHANGED <<shape, grid, points, previous_edge, next_edge, cycle_index,
                   cycles, ghost, iter, nb_cycles, last, oob>>

ComputePoints ==
    /\ pc = "points"
    /\ \E gh \in Ghosts :
        /\ ghost' = gh
        /\ points' = compute_points(grid, binary_grid, Filled(NaNPoint, gh.pt))
    /\ pc' = "adjacency"
    /\ UNCHANGED <<files, exit_code, call>>
    /\ UNCHANGED <<shape, grid, binary_grid, previous_edge, next_edge,
                   cycle_index, cycles, iter, nb_cycles, last, oob>>

ComputeAdjacency ==
    /\ pc = "adjacency"
    /\ LET np == compute_adajcency(grid, binary_grid,
                                   Filled(-1, NONE), Filled(-1, ghost.nx))
       IN  /\ next_edge' = np[1]
           /\ previous_edge' = np[2]
    /\ pc' = "browse"
    /\ UNCHANGED <<files, exit_code, call>>
    /\ UNCHANGED <<shape, grid, binary_grid, points, cycle_index, cycles,
                   ghost, iter, nb_cycles, last, oob>>

----------------------------------------------------------------------------
(* browse_grid, is_in_a_cycle, flood *)

is_in_a_cycle(cyc, shp, cell) ==
    LET edge_indexes == index2d_to_edge_index(cell, shp)
    IN  \E i \in 1 .. 4 : cyc[edge_indexes[i]] # -1

(* the while loop of flood, as the sequence of the edges it labels: the walk
   starts at first_edge and follows nx until it is back at first_edge; a walk
   over the E + 2 cells that is not back after E + 2 steps never is *)
RECURSIVE FloodWalk(_, _, _)
FloodWalk(nx, first_edge, path) ==
    IF nx[path[Len(path)]] = first_edge \/ Len(path) = E + 3
    THEN [path |-> path, hang |-> nx[path[Len(path)]] # first_edge]
    ELSE FloodWalk(nx, first_edge, Append(path, nx[path[Len(path)]]))

(* the edges a walk along nx from first visits before it closes or is cut *)
Visited(nx, first) ==
    LET path == FloodWalk(nx, first, <<first>>).path
    IN  {path[k] : k \in 1 .. Len(path)}

flood(nx, cyc, first_edge, cycle_number) ==
    LET walk == FloodWalk(nx, first_edge, <<first_edge>>)
        seen == {walk.path[k] : k \in 1 .. Len(walk.path)}
    IN  [cyc |-> [i \in DOMAIN cyc |-> IF i \in seen THEN cycle_number
                                                    ELSE cyc[i]],
         len |-> Len(walk.path), hang |-> walk.hang]

SeedEdge(c, edge_indexes) ==
    IF c = 1 \/ c = 2 \/ c = 6 \/ c = 14 \/ c = 13 \/ c = 9
    THEN edge_indexes[1]
    ELSE IF c = 3 \/ c = 4 \/ c = 12 \/ c = 11
    THEN edge_indexes[2]
    ELSE edge_indexes[3]

(* the test of browse_grid that makes a cell the seed of a flood *)
IsSeed(b, cyc, cell) ==
    /\ IsCell(cell)
    /\ Configuration(b, cell) > 0
    /\ Configuration(b, cell) < 15
    /\ Configuration(b, cell) # 5
    /\ Configuration(b, cell) # 10
    /\ ~is_in_a_cycle(cyc, shape, cell)

(* state of the browse loop:
   [cyc, cycles, n (cycle_number), hang, oob, k (cells gone through)] *)
BrowseCell(b, nx, st, k) ==
    LET cell == CellSeq(W, H)[k]
        edge_indexes == index2d_to_edge_index(cell, shape)
        first_edge == SeedEdge(Configuration(b, cell), edge_indexes)
        f == flood(nx, st.cyc, first_edge, st.n)
    IN  [cyc |-> f.cyc,
         cycles |-> IF f.hang THEN st.cycles
                    ELSE [st.cycles EXCEPT ![st.n] = <<first_edge, f.len>>],
         n |-> st.n + 1,
         hang |-> f.hang,
         oob |-> st.oob \cup
                 (IF Visited(nx, first_edge) \subseteq Edges
                  THEN {} ELSE {"next_edge", "cycle_index"}),
         k |-> k]

(* the loop over the cells, from one seed to the next: the cells between two
   seeds change nothing *)
RECURSIVE BrowseLoop(_, _, _)
BrowseLoop(b, nx, st) ==
    LET seeds == {j \in st.k + 1 .. W * H :
                     IsSeed(b, st.cyc, CellSeq(W, H)[j])}
    IN  IF st.hang THEN st
        ELSE IF seeds = {} THEN [st EXCEPT !.k = W * H]
        ELSE BrowseLoop(b, nx,
                 BrowseCell(b, nx, st,
                            CHOOSE j \in seeds : \A i \in seeds : j <= i))

(* the cells of the last row and of the last column read binary_grid out of
   range before they are skipped *)
browse_grid(b, nx, cyc, cyc_records) ==
    LET st == BrowseLoop(b, nx,
                  [cyc |-> cyc, cycles |-> cyc_records, n |-> 0,
                   hang |-> FALSE, oob |-> {}, k |-> 0])
    IN  [st EXCEPT !.oob =
            @ \cup (IF \E j \in 1 .. st.k : ~IsCell(CellSeq(W, H)[j])
                    THEN {"binary_grid"} ELSE {})]

BrowseGrid ==
    /\ pc = "browse"
    /\ LET st == browse_grid(binary_grid, next_edge, Filled(-1, ghost.cy),
                             [k \in Edges |-> <<0, 0>>])
       IN  /\ cycle_index' = st.cyc
           /\ cycles' = st.cycles
           /\ oob' = oob \cup st.oob
           /\ pc' = IF st.hang THEN "hang" ELSE "compact"
    /\ UNCHANGED <<files, exit_code, call>>
    /\ UNCHANGED <<shape, grid, binary_grid, points, previous_edge, next_edge,
                   ghost, iter, nb_cycles, last>>

(* count_cycles and fill_final_cycles; the compacted field keeps the cell -1 *)
count_cycles(cyc_records) ==
    Cardinality({k \in DOMAIN cyc_records : cyc_records[k][2] # 0})

fill_final_cycles(cyc_records, count) ==
    [k \in -1 .. count - 1 |-> IF k = -1 THEN <<0, 0>> ELSE cyc_records[k]]

CompactCycles ==
    /\ pc = "compact"
    /\ LET cycles_count == count_cycles(cycles)
       IN  /\ cycles' = fill_final_cycles(cycles, cycles_count)
           /\ nb_cycles' = cycles_count
    /\ pc' = "stitch"
    /\ UNCHANGED <<files, exit_code, call>>
    /\ UNCHANGED <<shape, grid, binary_grid, points, previous_edge, next_edge,
                   cycle_index, ghost, iter, last, oob>>

----------------------------------------------------------------------------
(* Splice cost of calc.py: compute_neighbours_energies, compute_all_energies *)

(* the patching energy of the edges I = (I1, nx[I1]) and J = (J1, nx[J1]) *)
Energy(pts, nx, I1, J1) ==
    LET i_1 == pts[I1]
        i_2 == pts[nx[I1]]
        j_1 == pts[J1]
        j_2 == pts[nx[J1]]
        cross == Add(euclidean_norm(i_1, j_2), euclidean_norm(i_2, j_1))
        no_cross == Add(euclidean_norm(i_1, j_1), euclidean_norm(i_2, j_2))
        own == Add(euclidean_norm(i_1, i_2), euclidean_norm(j_2, j_1))
    IN  IF Less(cross, no_cross) THEN Sub(cross, own) ELSE Sub(no_cross, own)

(* offset number k of the 5 x 5 x 2 loops: x outer, then y, z inner *)
OffsetOf(k) == <<k \div 10, (k \div 2) % 5, k % 2>>

NeighbourIndex(shp, I3, k) ==
    edge_3d_to_1d_index(shp, I3[1] + OffsetOf(k)[1] - 2,
                        I3[2] + OffsetOf(k)[2] - 2, OffsetOf(k)[3])

(* the first of the <<value, position>> pairs with the least value: what a
   loop over the positions in ascending order keeps when it replaces its
   minimum only by a strictly smaller value that is neither nan nor inf *)
FirstMinimum(pairs, default) ==
    LET valid == {p \in pairs : Less(p[1], Inf)}
    IN  IF valid = {} THEN default
        ELSE CHOOSE p \in valid :
                 \A q \in valid : p[1] < q[1] \/ (p[1] = q[1] /\ p[2] <= q[2])

(* the offsets of the 5 x 5 x 2 loops whose edge J is not skipped *)
Candidates(cyc, shp, cur) ==
    LET I3 == edge_1d_to_3d_index(shp, cur)
    IN  {k \in 0 .. 49 :
            ~(\/ cyc[NeighbourIndex(shp, I3, k)] = cyc[cur]
              \/ cyc[NeighbourIndex(shp, I3, k)] = -1)}

(* the search that keeps the last candidate of the offset loops, whatever
   its energy *)
compute_neighbours_energies_last(pts, nx, cyc, shp, cur) ==
    LET I3 == edge_1d_to_3d_index(shp, cur)
        ks == Candidates(cyc, shp, cur)
        k == CHOOSE j \in ks : \A i \in ks : i <= j
    IN  IF ks = {} THEN <<Inf, NeighbourIndex(shp, I3, 0)>>
        ELSE <<Energy(pts, nx, cur, NeighbourIndex(shp, I3, k)),
               NeighbourIndex(shp, I3, k)>>

(* <<minimal energy, 1D index of the edge that has it>> *)
compute_neighbours_energies(pts, nx, cyc, shp, cur) ==
    LET I3 == edge_1d_to_3d_index(shp, cur)
        best == FirstMinimum(
                    {<<Energy(pts, nx, cur, NeighbourIndex(shp, I3, k)), k>> :
                         k \in Candidates(cyc, shp, cur)},
                    <<Inf, 0>>)
    IN  <<best[1], NeighbourIndex(shp, I3, best[2])>>

compute_all_energies(pts, nx, cyc, cur) ==
    [index \in Edges |->
        IF cyc[index] = cyc[cur] THEN Inf
        ELSE IF cyc[index] = -1 THEN Inf
        ELSE Energy(pts, nx, cur, index)]

find_minimum_in_field(f) ==
    FirstMinimum({<<f[i], i>> : i \in DOMAIN f}, <<Inf, 0>>)

----------------------------------------------------------------------------
(* stitch.py *)

RECURSIVE MinimalCycleLoop(_, _, _, _)
MinimalCycleLoop(cyc_records, nb, k, best) ==
    IF k > nb - 1 THEN best
    ELSE MinimalCycleLoop(cyc_records, nb, k + 1,
             IF cyc_records[k][2] < best[2] /\ cyc_records[k][2] # 0
             THEN <<k, cyc_records[k][2]>> ELSE best)

(* the first record of least length, the records of length 0 included *)
find_minimal_cycle_with_tombstones(cyc_records, nb) ==
    CHOOSE k \in 0 .. nb - 1 :
        \A j \in 0 .. nb - 1 :
            \/ cyc_records[k][2] < cyc_records[j][2]
            \/ cyc_records[k][2] = cyc_records[j][2] /\ k <= j

find_minimal_cycle(cyc_records, nb) ==
    MinimalCycleLoop(cyc_records, nb, 0, <<0, Inf>>)[1]

(* st = [n (iterations left), cur, e (minimal_energy),
         pair (minimal_energy_edges)] *)
RECURSIVE LocalLoop(_, _, _, _, _)
LocalLoop(pts, nx, cyc, shp, st) ==
    IF st.n = 0 THEN st
    ELSE LET min_and_index ==
                 compute_neighbours_energies(pts, nx, cyc, shp, st.cur)
             hit == Less(min_and_index[1], st.e) /\ min_and_index[1] # Inf
         IN  LocalLoop(pts, nx, cyc, shp,
                 [n |-> st.n - 1,
                  cur |-> nx[st.cur],
                  e |-> IF hit THEN min_and_index[1] ELSE st.e,
                  pair |-> IF hit THEN <<st.cur, min_and_index[2]>>
                           ELSE st.pair])

RECURSIVE FullLoop(_, _, _, _)
FullLoop(pts, nx, cyc, st) ==
    IF st.n = 0 THEN st
    ELSE LET min_and_index ==
                 find_minimum_in_field(compute_all_energies(pts, nx, cyc, st.cur))
             hit == Less(min_and_index[1], st.e)
         IN  FullLoop(pts, nx, cyc,
                 [n |-> st.n - 1,
                  cur |-> nx[st.cur],
                  e |-> IF hit THEN min_and_index[1] ELSE st.e,
                  pair |-> IF hit THEN <<st.cur, min_and_index[2]>>
                           ELSE st.pair])

LocalSearch(pts, nx, cyc, cyc_records, m, shp) ==
    LocalLoop(pts, nx, cyc, shp,
              [n |-> cyc_records[m][2], cur |-> cyc_records[m][1],
               e |-> Inf, pair |-> <<0, 0>>])

UsesFallback(pts, nx, cyc, cyc_records, m, shp) ==
    LocalSearch(pts, nx, cyc, cyc_records, m, shp).e = Inf

find_edges_with_minimum_energy_with_neighbours(pts, nx, cyc, cyc_records, m, shp) ==
    LET loc == LocalSearch(pts, nx, cyc, cyc_records, m, shp)
    IN  IF loc.e = Inf
        THEN FullLoop(pts, nx, cyc,
                      [loc EXCEPT !.n = cyc_records[m][2]]).pair
        ELSE loc.pair

(* a splice that crosses next_edge and leaves previous_edge as it was *)
SplicePointersPrevStraight(pv, nx, pair) ==
    LET edge_I == <<pair[1], nx[pair[1]]>>
        edge_J == <<pair[2], nx[pair[2]]>>
        nx1 == [nx EXCEPT ![edge_I[1]] = edge_J[2]]
        nx2 == [nx1 EXCEPT ![edge_J[1]] = edge_I[2]]
    IN  <<nx2, pv>>

(* the four pointer stores of stitch_two_cycles, in order *)
SplicePointers(pv, nx, pair) ==
    LET edge_I == <<pair[1], nx[pair[1]]>>
        edge_J == <<pair[2], nx[pair[2]]>>
        nx1 == [nx EXCEPT ![edge_I[1]] = edge_J[2]]
        pv1 == [pv EXCEPT ![edge_I[2]] = edge_J[1]]
        nx2 == [nx1 EXCEPT ![edge_J[1]] = edge_I[2]]
        pv2 == [pv1 EXCEPT ![edge_J[2]] = edge_I[1]]
    IN  <<nx2, pv2>>

(* the relabel walk of stitch_two_cycles, as the sequence of the edges it
   relabels: from nx[stop] along nx until it is at stop *)
RECURSIVE RelabelWalk(_, _, _, _)
RelabelWalk(nx, stop, point, path) ==
    IF point = stop THEN [path |-> path, hang |-> FALSE]
    ELSE IF Len(path) = E + 2 THEN [path |-> path, hang |-> TRUE]
    ELSE RelabelWalk(nx, stop, nx[point], Append(path, point))

MergeRecords(cyc_records, cycle_1_index, cycle_2_index) ==
    LET new_cycle == <<cyc_records[cycle_1_index][1],
                       cyc_records[cycle_1_index][2]
                       + cyc_records[cycle_2_index][2]>>
        c1 == [cyc_records EXCEPT ![cycle_1_index] = new_cycle]
    IN  [c1 EXCEPT ![cycle_2_index] = <<0, 0>>]

(* [nx, pv, cyc, cycles, hang] *)
stitch_two_cycles(pv, nx, cyc, cyc_records, pair) ==
    LET cycle_1_index == cyc[pair[1]]
        cycle_2_index == cyc[pair[2]]
        np == SplicePointers(pv, nx, pair)
        rl == RelabelWalk(np[1], pair[1], np[1][pair[1]], <<>>)
        relabelled == {rl.path[k] : k \in 1 .. Len(rl.path)}
    IN  [nx |-> np[1], pv |-> np[2],
         cyc |-> [i \in DOMAIN cyc |-> IF i \in relabelled THEN cycle_1_index
                                                          ELSE cyc[i]],
         cycles |-> MergeRecords(cyc_records, cycle_1_index, cycle_2_index),
         hang |-> rl.hang]

(* the fields the search of one iteration indexes out of range *)
SearchOob(nx, cyc, cyc_records, m, shp) ==
    LET walk == Visited(nx, cyc_records[m][1])
        js == {NeighbourIndex(shp, edge_1d_to_3d_index(shp, i), k) :
                   i \in walk, k \in 0 .. 49}
    IN  (IF js \subseteq Edges THEN {} ELSE {"cycle_index"})
        \cup (IF walk \subseteq Edges THEN {} ELSE {"next_edge", "cycle_index"})

(* one iteration of compiled_stitching_algorithm_with_neighbours *)
StitchIteration ==
    /\ pc = "stitch"
    /\ iter < nb_cycles - 1
    /\ LET minimal_cycle_index == find_minimal_cycle(cycles, nb_cycles)
           minimal_energy_edges ==
               find_edges_with_minimum_energy_with_neighbours(
                   points, next_edge, cycle_index, cycles,
                   minimal_cycle_index, shape)
           r == stitch_two_cycles(previous_edge, next_edge, cycle_index,
                                  cycles, minimal_energy_edges)
       IN  /\ next_edge' = r.nx
           /\ previous_edge' = r.pv
           /\ cycle_index' = r.cyc
           /\ cycles' = r.cycles
           /\ last' = minimal_energy_edges
           /\ pc' = IF r.hang THEN "hang" ELSE "stitch"
           /\ oob' = oob \cup SearchOob(next_edge, cycle_index, cycles,
                                        minimal_cycle_index, shape)
    /\ iter' = iter + 1
    /\ UNCHANGED <<files, exit_code, call>>
    /\ UNCHANGED <<shape, grid, binary_grid, points, ghost, nb_cycles>>

StitchReturn ==
    /\ pc = "stitch"
    /\ ~(iter < nb_cycles - 1)
    /\ pc' = "done"
    /\ UNCHANGED <<files, exit_code, call>>
    /\ UNCHANGED <<shape, grid, binary_grid, points, previous_edge, next_edge,
                   cycle_index, cycles, ghost, iter, nb_cycles, last, oob>>

Next ==
    \/ ComputeBinaryGrid
    \/ ComputePoints
    \/ ComputeAdjacency
    \/ BrowseGrid
    \/ CompactCycles
    \/ StitchIteration
    \/ StitchReturn

Spec == Init /\ [][Next]_vars

----------------------------------------------------------------------------
(* Properties of the extracted graph and of the stitching loop *)

(* the graph has been through compute_adajcency *)
AfterAdjacency == pc \notin {"binary", "points", "adjacency"}

(* to_graph has returned; iter counts the stitch iterations done since *)
Extracted == pc \in {"stitch", "done"}

(* no kernel has indexed next_edge, cycle_index or points out of range *)
InRange == oob \subseteq {"binary_grid"}

(* the non-tombstone records of the catalog *)
AliveRecords == {k \in DOMAIN cycles : k >= 0 /\ cycles[k][2] # 0}

LabelledEdges == {i \in Edges : cycle_index[i] # NONE}

(* following next_edge from the start edge of record k comes back to it in
   exactly its length steps, over edges that all carry the label k *)
ClosedAndLabelled(k) ==
    LET w == FloodWalk(next_edge, cycles[k][1], <<cycles[k][1]>>)
    IN  /\ ~w.hang
        /\ Len(w.path) = cycles[k][2]
        /\ \A j \in 1 .. Len(w.path) :
               w.path[j] \in Edges /\ cycle_index[w.path[j]] = k

(* C1. Pair invariant I1: after compute_adajcency and after every splice,
   every edge i with next_edge[i] # NONE has previous_edge[next_edge[i]] = i *)
PairInvariant ==
    AfterAdjacency =>
        \A i \in Edges :
            next_edge[i] # NONE => previous_edge[next_edge[i]] = i

(* C2. Closure and labeling I2/P2: after extraction and after every stitch
   iteration, the walk from the start edge of every non-tombstone record
   returns to it in exactly the record's length steps, not earlier, and every
   edge it visits has the record's index as cycle_index *)
ClosureAndLabeling ==
    Extracted => \A k \in AliveRecords : ClosedAndLabelled(k)

(* C3. Final state P4: when extraction yields K >= 1 cycles, after the
   stitching loop there is exactly one non-tombstone record, and its length is
   the number of edges with cycle_index # NONE *)
FinalState ==
    (pc = "done" /\ nb_cycles >= 1) =>
        /\ Cardinality(AliveRecords) = 1
        /\ \A k \in AliveRecords : cycles[k][2] = Cardinality(LabelledEdges)

(* C4. Termination: on an extraction output with K >= 1 cycles the stitching
   loop ends after exactly K - 1 iterations, every iteration ends (the relabel
   walk included) and takes exactly one record out of the non-tombstone ones,
   and with K = 1 no splice is performed *)
StitchingTerminates ==
    nb_cycles >= 1 =>
        /\ Extracted => iter <= nb_cycles - 1
        /\ pc = "done" => iter = nb_cycles - 1
        /\ ~(pc = "hang" /\ iter >= 1)
        /\ Extracted => Cardinality(AliveRecords) = nb_cycles - iter
        /\ (Extracted /\ nb_cycles = 1) => last = <<NONE, NONE>>

(* C5. Labeling invariant I3/P3: for every input grid, after extraction and
   after every stitch iteration, cycle_index[i] # NONE exactly when
   next_edge[i] # NONE, the arcs of the saddle cells 5 and 10 included *)
LabelingInvariant ==
    Extracted =>
        \A i \in Edges : (cycle_index[i] # NONE) <=> (next_edge[i] # NONE)

(* C6. Geometry invariant I5: for every input grid, every edge i with
   next_edge[i] # NONE after extraction has a point written by compute_points,
   the top side of the cells x = 0 and the left side of the cells y = 0
   included *)
GeometryInvariant ==
    AfterAdjacency =>
        \A i \in Edges : next_edge[i] # NONE => points[i] # NaNPoint

(* C7. Converse pairing, second half of P1: after extraction and after every
   stitch iteration, every edge i with next_edge[i] # NONE has
   previous_edge[i] # NONE and next_edge[previous_edge[i]] = i *)
ConversePairing ==
    Extracted =>
        \A i \in Edges :
            next_edge[i] # NONE =>
                /\ previous_edge[i] # NONE
                /\ next_edge[previous_edge[i]] = i

----------------------------------------------------------------------------
(* States in which the invariants above are broken *)

(* a splice whose second edge is the flat index -1, which the neighbourhood
   search gives for an offset outside the grid, has left an edge whose
   successor names another predecessor *)
PairBrokenBySplice ==
    /\ pc = "stitch"
    /\ iter >= 1
    /\ last[2] = -1
    /\ \E i \in Edges :
           next_edge[i] # NONE /\ previous_edge[next_edge[i]] # i

(* the record of a contour cut by the border of the grid: the flood went
   through next_edge[-1], and the walk from the start edge reaches NONE *)
OpenRecord ==
    /\ pc = "stitch"
    /\ iter = 0
    /\ "next_edge" \in oob
    /\ \E k \in AliveRecords :
           /\ ~ClosedAndLabelled(k)
           /\ \E j \in 1 .. Len(FloodWalk(next_edge, cycles[k][1],
                                          <<cycles[k][1]>>).path) :
                  FloodWalk(next_edge, cycles[k][1],
                            <<cycles[k][1]>>).path[j] = NONE

(* the loop has returned on a single record that counts more edges than
   carry a label *)
FinalLengthOff ==
    /\ pc = "done"
    /\ nb_cycles = 1
    /\ AliveRecords = {0}
    /\ cycles[0][2] > Cardinality(LabelledEdges)

(* three cycles, two iterations done, two records left: one iteration merged
   a record that was a tombstone already *)
TombstoneMerged ==
    /\ pc = "stitch"
    /\ nb_cycles = 3
    /\ iter = 2
    /\ Cardinality(AliveRecords) = 2

(* with every index in range: an arc of a saddle cell that has a successor
   and no label *)
SaddleArcUnlabelled ==
    /\ Extracted
    /\ InRange
    /\ \E cell \in Cells :
           /\ Configuration(binary_grid, cell) \in {5, 10}
           /\ \E i \in Edges :
                  /\ <<"next_edge", i, next_edge[i]>>
                         \in {AdjacencyCell(grid, binary_grid, cell)[j] :
                                  j \in 1 .. 4}
                  /\ next_edge[i] # NONE
                  /\ cycle_index[i] = NONE

(* the cell (0, 0) is of case 1: its top side has a successor and no point *)
TopSideWithoutPoint ==
    /\ pc = "browse"
    /\ Configuration(binary_grid, <<0, 0>>) = 1
    /\ next_edge[index2d_to_edge_index(<<0, 0>>, shape)[1]]
           = index2d_to_edge_index(<<0, 0>>, shape)[4]
    /\ points[index2d_to_edge_index(<<0, 0>>, shape)[1]] = NaNPoint

(* with every index in range: the first edge of a contour cut by the border
   of the grid has a successor and no predecessor *)
HeadWithoutPredecessor ==
    /\ Extracted
    /\ InRange
    /\ \E i \in Edges : next_edge[i] # NONE /\ previous_edge[i] = NONE

----------------------------------------------------------------------------
(* The direction table, side by side with the stores of compute_adajcency *)

Sides == {"top", "right", "bottom", "left"}

(* the flat index of a side of a cell: top = horizontal-top edge, right =
   vertical-right, bottom = horizontal-bottom, left = vertical-left *)
SideEdge(cell, side) ==
    LET edge_indexes == index2d_to_edge_index(cell, shape)
    IN  CASE side = "top" -> edge_indexes[1]
          [] side = "right" -> edge_indexes[2]
          [] side = "bottom" -> edge_indexes[3]
          [] side = "left" -> edge_indexes[4]

(* the table of the single-edge cases and of case 5, as <<from, to>> *)
TablePairs(c, avg) ==
    CASE c = 1 -> {<<"top", "left">>}
      [] c = 2 -> {<<"right", "top">>}
      [] c = 3 -> {<<"right", "left">>}
      [] c = 4 -> {<<"bottom", "right">>}
      [] c = 5 -> IF avg > 0 THEN {<<"top", "right">>, <<"bottom", "left">>}
                             ELSE {<<"top", "left">>, <<"bottom", "right">>}
      [] c = 6 -> {<<"bottom", "top">>}
      [] c = 7 -> {<<"bottom", "left">>}
      [] c = 8 -> {<<"left", "bottom">>}
      [] c = 9 -> {<<"top", "bottom">>}
      [] c = 11 -> {<<"right", "bottom">>}
      [] c = 12 -> {<<"left", "right">>}
      [] c = 13 -> {<<"top", "right">>}
      [] c = 14 -> {<<"left", "top">>}
      [] OTHER -> {}

(* next_edge and previous_edge hold the arc from -> to of the cell *)
HoldsArc(cell, from, to) ==
    /\ next_edge[SideEdge(cell, from)] = SideEdge(cell, to)
    /\ previous_edge[SideEdge(cell, to)] = SideEdge(cell, from)

(* the stores a cell makes for a set of arcs, and for no arc at all *)
ArcStores(cell, pairs) ==
    {<<"next_edge", SideEdge(cell, a[1]), SideEdge(cell, a[2])>> : a \in pairs}
    \cup {<<"previous_edge", SideEdge(cell, a[2]), SideEdge(cell, a[1])>> :
              a \in pairs}

NoneStores(cell) ==
    {<<"next_edge", SideEdge(cell, sd), NONE>> : sd \in Sides}
    \cup {<<"previous_edge", SideEdge(cell, sd), NONE>> : sd \in Sides}

(* the stores of the body of compute_adajcency for the cell, as a set *)
CellStores(cell) ==
    LET st == AdjacencyCell(grid, binary_grid, cell)
    IN  {st[j] : j \in 1 .. Len(st)}

(* C8. Direction table: for every cell with configuration c, compute_adajcency
   sets next_edge[from] = to and previous_edge[to] = from for exactly the
   pairs of the table (case 5 by the sign of the corner average), and for c
   in {0, 15} it sets next and previous of all four edges to NONE *)
DirectionTable ==
    pc = "browse" =>
        \A cell \in Cells :
            LET c == Configuration(binary_grid, cell)
                pairs == TablePairs(c, AverageSum(grid, cell))
            IN  c # 10 =>
                    /\ \A a \in pairs : HoldsArc(cell, a[1], a[2])
                    /\ c \in {0, 15} =>
                           /\ CellStores(cell) = NoneStores(cell)
                           /\ \A sd \in Sides :
                                  /\ next_edge[SideEdge(cell, sd)] = NONE
                                  /\ previous_edge[SideEdge(cell, sd)] = NONE
                    /\ c \notin {0, 15} =>
                           CellStores(cell) = ArcStores(cell, pairs)

(* a grid through compute_adajcency with a cell of case 5 whose corner average
   is positive, next to a cell of a single-edge case *)
DirectionTableWitness ==
    /\ pc = "browse"
    /\ \E c1 \in Cells, c2 \in Cells :
           /\ Configuration(binary_grid, c1) = 5
           /\ AverageSum(grid, c1) > 0
           /\ Configuration(binary_grid, c2) \in {1, 2, 3, 4, 6, 7}
           /\ next_edge[SideEdge(c1, "top")] = SideEdge(c1, "right")

(* C9, as amended. Saddle case 10: if the average of the four corners is < 0
   the adjacency is right -> top and left -> bottom; otherwise it is
   left -> top and right -> bottom *)
SaddleTen ==
    pc = "browse" =>
        \A cell \in Cells :
            Configuration(binary_grid, cell) = 10 =>
                /\ CellStores(cell) =
                       ArcStores(cell,
                           IF AverageSum(grid, cell) < 0
                           THEN {<<"right", "top">>, <<"left", "bottom">>}
                           ELSE {<<"left", "top">>, <<"right", "bottom">>})
                /\ IF AverageSum(grid, cell) < 0
                   THEN /\ HoldsArc(cell, "right", "top")
                        /\ HoldsArc(cell, "left", "bottom")
                   ELSE /\ HoldsArc(cell, "left", "top")
                        /\ HoldsArc(cell, "right", "bottom")

(* C9, as claimed. Saddle case 10: if the average of the four corners is < 0
   the adjacency is left -> top and right -> bottom; otherwise it is
   left -> bottom and right -> top *)
SaddleTenAsClaimed ==
    pc = "browse" =>
        \A cell \in Cells :
            Configuration(binary_grid, cell) = 10 =>
                IF AverageSum(grid, cell) < 0
                THEN /\ HoldsArc(cell, "left", "top")
                     /\ HoldsArc(cell, "right", "bottom")
                ELSE /\ HoldsArc(cell, "left", "bottom")
                     /\ HoldsArc(cell, "right", "top")

(* a grid through compute_adajcency with a cell of case 10 whose corner
   average is negative *)
SaddleTenWitness ==
    /\ pc = "browse"
    /\ \E cell \in Cells :
           /\ Configuration(binary_grid, cell) = 10
           /\ AverageSum(grid, cell) < 0
           /\ next_edge[SideEdge(cell, "right")] = SideEdge(cell, "top")

----------------------------------------------------------------------------
(* Orientation of the arcs in the (x, y) frame *)

(* the corners of a cell *)
Corners(cell) ==
    {<<cell[1], cell[2]>>, <<cell[1], cell[2] + 1>>,
     <<cell[1] + 1, cell[2] + 1>>, <<cell[1] + 1, cell[2]>>}

(* the two corners a side joins *)
SideEnds(cell, side) ==
    CASE side = "top" -> {<<cell[1], cell[2]>>, <<cell[1], cell[2] + 1>>}
      [] side = "right" -> {<<cell[1], cell[2] + 1>>, <<cell[1] + 1, cell[2] + 1>>}
      [] side = "bottom" -> {<<cell[1] + 1, cell[2]>>, <<cell[1] + 1, cell[2] + 1>>}
      [] side = "left" -> {<<cell[1], cell[2]>>, <<cell[1] + 1, cell[2]>>}

(* twice the midpoint of a side: the sum of its two corners *)
Midpoint2(cell, side) ==
    CASE side = "top" -> <<2 * cell[1], 2 * cell[2] + 1>>
      [] side = "right" -> <<2 * cell[1] + 1, 2 * cell[2] + 2>>
      [] side = "bottom" -> <<2 * cell[1] + 2, 2 * cell[2] + 1>>
      [] side = "left" -> <<2 * cell[1] + 1, 2 * cell[2]>>

(* the arcs the body of compute_adajcency stores for the cell, as sides *)
CellArcs(cell) ==
    {a \in Sides \X Sides :
        /\ a[1] # a[2]
        /\ <<"next_edge", SideEdge(cell, a[1]), SideEdge(cell, a[2])>>
               \in CellStores(cell)}

(* the sign of the cross product of the direction of travel with the vector
   from the start of the arc to the corner: positive when the corner is on
   the left of the direction of travel *)
Turn(cell, a, corner) ==
    LET f == Midpoint2(cell, a[1])
        t == Midpoint2(cell, a[2])
    IN  (t[1] - f[1]) * (2 * corner[2] - f[2])
        - (t[2] - f[2]) * (2 * corner[1] - f[1])

(* the corners an arc separates: all four, but in a saddle cell, where each
   arc cuts one corner off, the corners of the two sides it joins *)
Separated(cell, a) ==
    IF Cardinality(CellArcs(cell)) = 2
    THEN SideEnds(cell, a[1]) \cup SideEnds(cell, a[2])
    ELSE Corners(cell)

(* the cells other than cell that have the edge e as a side *)
Sharing(cell, e) ==
    {o \in Cells : o # cell /\ \E sd \in Sides : SideEdge(o, sd) = e}

(* C10. Consistent orientation: for every arc compute_adajcency sets, going
   from the midpoint of the from side to the midpoint of the to side, every
   corner with binary 0 the arc separates is on the left and every separated
   corner with binary 1 is on the right; so an edge two cells share is the to
   edge of one and the from edge of the other, never from or to in both *)
ConsistentOrientation ==
    pc = "browse" =>
        \A cell \in Cells :
            /\ Configuration(binary_grid, cell) \notin {0, 15}
                   => CellArcs(cell) # {}
            /\ \A a \in CellArcs(cell) :
                   /\ HoldsArc(cell, a[1], a[2])
                   /\ \A corner \in Separated(cell, a) :
                          IF binary_grid[corner] = 0
                          THEN Turn(cell, a, corner) > 0
                          ELSE Turn(cell, a, corner) < 0
                   /\ \A o \in Sharing(cell, SideEdge(cell, a[1])) :
                          /\ \E b \in CellArcs(o) :
                                 SideEdge(o, b[2]) = SideEdge(cell, a[1])
                          /\ \A b \in CellArcs(o) :
                                 SideEdge(o, b[1]) # SideEdge(cell, a[1])
                   /\ \A o \in Sharing(cell, SideEdge(cell, a[2])) :
                          /\ \E b \in CellArcs(o) :
                                 SideEdge(o, b[1]) = SideEdge(cell, a[2])
                          /\ \A b \in CellArcs(o) :
                                 SideEdge(o, b[2]) # SideEdge(cell, a[2])

(* a grid through compute_adajcency where a saddle cell and a single-edge
   cell share an edge of the contour *)
ConsistentOrientationWitness ==
    /\ pc = "browse"
    /\ \E cell \in Cells :
           /\ Configuration(binary_grid, cell) \in {5, 10}
           /\ \E a \in CellArcs(cell) :
                  \E o \in Sharing(cell, SideEdge(cell, a[2])) :
                      /\ Configuration(binary_grid, o) \notin {0, 5, 10, 15}
                      /\ \E b \in CellArcs(o) :
                             SideEdge(o, b[1]) = SideEdge(cell, a[2])

----------------------------------------------------------------------------
(* The functions of index.py applied on their own: a shape is chosen, then
   each step applies one function, or one composition of two, to arguments
   taken in the range and up to Margin outside of it *)

MaxSide == 4
Margin == 2

(* the values of z tried: the two orientations and one value on each side *)
Orientations == -1 .. 2

(* the fields of the pipeline, which the steps below leave alone *)
pipeline == <<grid, binary_grid, points, previous_edge, next_edge,
              cycle_index, cycles, ghost, iter, nb_cycles, last, oob>>

InitIndex ==
    /\ \E w \in 1 .. MaxSide, h \in 1 .. MaxSide : shape = <<w, h>>
    /\ grid = <<>>
    /\ binary_grid = <<>>
    /\ points = <<>>
    /\ previous_edge = <<>>
    /\ next_edge = <<>>
    /\ cycle_index = <<>>
    /\ cycles = <<>>
    /\ ghost = [pt |-> NaNPoint, nx |-> NONE, cy |-> NONE]
    /\ pc = "index"
    /\ iter = 0
    /\ nb_cycles = 0
    /\ last = <<NONE, NONE>>
    /\ oob = {}
    /\ call = NoCall
    /\ files = {FieldFile, NpDir}
    /\ exit_code = NONE

(* i = edge_3d_to_1d_index(shape, x, y, z) *)
Edge3dTo1d ==
    /\ pc = "index"
    /\ \E x \in 0 - Margin .. W + Margin, y \in 0 - Margin .. H + Margin,
          z \in Orientations :
           call' = [f |-> "edge_3d_to_1d_index", arg |-> <<x, y, z>>,
                    res |-> edge_3d_to_1d_index(shape, x, y, z)]
    /\ UNCHANGED <<shape, pc, pipeline, files, exit_code>>

(* edge_1d_to_3d_index(shape, edge_3d_to_1d_index(shape, x, y, z)) *)
RoundTrip3d ==
    /\ pc = "index"
    /\ \E x \in 0 - Margin .. W + Margin, y \in 0 - Margin .. H + Margin,
          z \in Orientations :
           call' = [f |-> "edge_1d_to_3d_index . edge_3d_to_1d_index",
                    arg |-> <<x, y, z>>,
                    res |-> edge_1d_to_3d_index(shape,
                                edge_3d_to_1d_index(shape, x, y, z))]
    /\ UNCHANGED <<shape, pc, pipeline, files, exit_code>>

(* edge_3d_to_1d_index(shape, edge_1d_to_3d_index(shape, i)) *)
RoundTrip1d ==
    /\ pc = "index"
    /\ \E i \in 0 - Margin .. E + Margin :
           LET r == edge_1d_to_3d_index(shape, i)
           IN  call' = [f |-> "edge_3d_to_1d_index . edge_1d_to_3d_index",
                        arg |-> i,
                        res |-> edge_3d_to_1d_index(shape, r[1], r[2], r[3])]
    /\ UNCHANGED <<shape, pc, pipeline, files, exit_code>>

(* edge_indexes = index2d_to_edge_index(cell, shape) *)
CellEdges ==
    /\ pc = "index"
    /\ \E x \in 0 .. W - 1, y \in 0 .. H - 1 :
           call' = [f |-> "index2d_to_edge_index", arg |-> <<x, y>>,
                    res |-> index2d_to_edge_index(<<x, y>>, shape)]
    /\ UNCHANGED <<shape, pc, pipeline, files, exit_code>>

NextIndex ==
    \/ Edge3dTo1d
    \/ RoundTrip3d
    \/ RoundTrip1d
    \/ CellEdges

SpecIndex == InitIndex /\ [][NextIndex]_vars

(* the 3D indices the index space holds: z = 0 with 0 <= x <= W, 0 <= y < H
   and z = 1 with 0 <= x < W, 0 <= y <= H *)
InRange3d(a) ==
    \/ a[3] = 0 /\ 0 <= a[1] /\ a[1] <= W /\ 0 <= a[2] /\ a[2] < H
    \/ a[3] = 1 /\ 0 <= a[1] /\ a[1] < W /\ 0 <= a[2] /\ a[2] <= H

(* C11. Index round trip R1: for every shape and every in-range (x, y, z),
   edge_1d_to_3d_index(edge_3d_to_1d_index(x, y, z)) = (x, y, z), and for
   every i in [0, E), edge_3d_to_1d_index(edge_1d_to_3d_index(i)) = i *)
IndexRoundTrip ==
    /\ (call.f = "edge_1d_to_3d_index . edge_3d_to_1d_index"
        /\ InRange3d(call.arg)) => call.res = call.arg
    /\ (call.f = "edge_3d_to_1d_index . edge_1d_to_3d_index"
        /\ call.arg \in Edges) => call.res = call.arg

(* the round trip of the last vertical index of a shape that is not square,
   the one index of the index space that is not below E *)
IndexRoundTripWitness ==
    /\ call.f = "edge_1d_to_3d_index . edge_3d_to_1d_index"
    /\ W # H
    /\ call.arg = <<W - 1, H, 1>>
    /\ call.res = call.arg

(* C12. Bounds checking of the forward map: for every integer (x, y, z),
   edge_3d_to_1d_index returns either NONE or an index i with 0 <= i < E,
   and it returns NONE for every input that is out of range, a z outside
   {0, 1} included *)
ForwardMapBounds ==
    call.f = "edge_3d_to_1d_index" =>
        /\ call.res = NONE \/ call.res \in Edges
        /\ ~InRange3d(call.arg) => call.res = NONE

(* the forward map has returned E, the size of the edge fields, for the last
   vertical index *)
ForwardMapReturnsE ==
    /\ call.f = "edge_3d_to_1d_index"
    /\ call.arg = <<W - 1, H, 1>>
    /\ call.res = E
    /\ call.res \notin Edges

(* the cells of the claim: 0 <= x < W - 1 and 0 <= y < H - 1 *)
InnerCells == (0 .. W - 2) \X (0 .. H - 2)

(* the slots of edge_indexes that two cells may have in common: slot i of
   the cell c and slot j of the cell d name the same side *)
SharedSide(c, i, d, j) ==
    \/ i = 3 /\ j = 1 /\ d = <<c[1] + 1, c[2]>>
    \/ i = 1 /\ j = 3 /\ d = <<c[1] - 1, c[2]>>
    \/ i = 2 /\ j = 4 /\ d = <<c[1], c[2] + 1>>
    \/ i = 4 /\ j = 2 /\ d = <<c[1], c[2] - 1>>

(* C13. Cell-to-edge mapping: for every cell (x, y) with 0 <= x < W - 1 and
   0 <= y < H - 1, index2d_to_edge_index returns (top, right, bottom, left) =
   (x*H + y, H*(W+1) + x*(H+1) + y + 1, (x+1)*H + y, H*(W+1) + x*(H+1) + y);
   the four indices are pairwise distinct and in [0, E); two different cells
   have an index in common only for their shared side: bottom of (x, y) = top
   of (x+1, y), right of (x, y) = left of (x, y+1) *)
CellToEdgeMapping ==
    (call.f = "index2d_to_edge_index" /\ call.arg \in InnerCells) =>
        LET x == call.arg[1]
            y == call.arg[2]
        IN  /\ call.res = <<x * H + y, H * (W + 1) + x * (H + 1) + y + 1,
                            (x + 1) * H + y, H * (W + 1) + x * (H + 1) + y>>
            /\ \A i \in 1 .. 4 : call.res[i] \in Edges
            /\ \A i \in 1 .. 4, j \in 1 .. 4 :
                   i # j => call.res[i] # call.res[j]
            /\ \A d \in InnerCells \ {call.arg} :
                   \A i \in 1 .. 4, j \in 1 .. 4 :
                       (call.res[i] = index2d_to_edge_index(d, shape)[j])
                           <=> SharedSide(call.arg, i, d, j)

(* the map applied to a cell that has a neighbour cell on each of its four
   sides *)
CellToEdgeMappingWitness ==
    /\ call.f = "index2d_to_edge_index"
    /\ W >= 4 /\ H >= 4
    /\ call.arg = <<1, 1>>
    /\ {<<0, 1>>, <<2, 1>>, <<1, 0>>, <<1, 2>>} \subseteq InnerCells
    /\ call.res[3] = index2d_to_edge_index(<<2, 1>>, shape)[1]

----------------------------------------------------------------------------
(* The edges of the last row and of the last column *)

(* the edges that join two samples of the column x = W - 1, the bottom sides
   of the cells x = W - 2, and the edges that join two samples of the row
   y = H - 1, the right sides of the cells y = H - 2 *)
BoundaryEdges ==
    {index2d_to_edge_index(<<W - 2, y>>, shape)[3] : y \in 0 .. H - 2}
    \cup {index2d_to_edge_index(<<x, H - 2>>, shape)[2] : x \in 0 .. W - 2}

(* C14. Boundary edges: for every input grid, the edges of the last row and
   of the last column are never given a point by compute_points, keep
   next_edge = previous_edge = cycle_index = NONE, and are in no cycle *)
BoundaryEdgesUnset ==
    \A i \in BoundaryEdges :
        /\ pc \notin {"binary", "points"} => points[i] = NaNPoint
        /\ AfterAdjacency =>
               next_edge[i] = NONE /\ previous_edge[i] = NONE
        /\ pc \in {"compact", "stitch", "done"} =>
               /\ cycle_index[i] = NONE
               /\ \A k \in AliveRecords :
                      i \notin Visited(next_edge, cycles[k][1])

(* with every index in range: compute_points has given a point to an edge
   of the last row or column and compute_adajcency a successor or a
   predecessor *)
BoundaryEdgeSet ==
    /\ pc = "browse"
    /\ InRange
    /\ \E i \in BoundaryEdges :
           /\ points[i] # NaNPoint
           /\ next_edge[i] # NONE \/ previous_edge[i] # NONE

----------------------------------------------------------------------------
(* The choice of the pair to splice *)

(* the candidate pairs of an iteration: I carries the label of the smallest
   cycle, J the label of another cycle, and their splice cost is a number *)
CandidatePairs ==
    LET m == find_minimal_cycle(cycles, nb_cycles)
    IN  {p \in Edges \X Edges :
            /\ cycle_index[p[1]] = m
            /\ cycle_index[p[2]] \notin {m, NONE}
            /\ Less(Energy(points, next_edge, p[1], p[2]), Inf)}

(* the candidate pairs of lowest splice cost *)
CheapestPairs ==
    {p \in CandidatePairs :
        \A q \in CandidatePairs :
            Energy(points, next_edge, p[1], p[2])
                <= Energy(points, next_edge, q[1], q[2])}

(* among them, the lowest edge id of I, then the lowest edge id of J *)
LowestIds(pairs) ==
    CHOOSE p \in pairs :
        \A q \in pairs : p[1] < q[1] \/ (p[1] = q[1] /\ p[2] <= q[2])

(* C15. Deterministic tie-breaking of the splice choice: in each iteration,
   among the candidate pairs (I in the smallest cycle, J in another cycle)
   of lowest splice cost, the pair that is spliced is the one with the
   lowest edge id of I and, among those, the lowest edge id of J *)
LowestIdTieBreak ==
    [][(pc = "stitch" /\ iter' = iter + 1 /\ CheapestPairs # {})
           => last' = LowestIds(CheapestPairs)]_vars

(* with every index in range: two cycles, each shrunk to one point, so that
   all the candidate pairs cost the same; the pair spliced starts at the
   start edge of the smallest cycle although an edge of that cycle has a
   lower id *)
TieBrokenByWalkOrder ==
    /\ pc = "stitch"
    /\ InRange
    /\ nb_cycles = 2
    /\ iter = 1
    /\ Cardinality({points[i] : i \in LabelledEdges}) = 2
    /\ last[1] = cycles[0][1]
    /\ \E e \in LabelledEdges : e < last[1] /\ points[e] = points[last[1]]

----------------------------------------------------------------------------
(* The search that finds no pair *)

(* neither the loop over the neighbouring edges nor the loop of the classic
   method has found a pair for the smallest cycle: minimal_energy is still
   inf when the search returns *)
NoCandidateFound ==
    LET m == find_minimal_cycle(cycles, nb_cycles)
        loc == LocalSearch(points, next_edge, cycle_index, cycles, m, shape)
    IN  /\ loc.e = Inf
        /\ FullLoop(points, next_edge, cycle_index,
                    [loc EXCEPT !.n = cycles[m][2]]).e = Inf

(* C16. NoCandidate is reported: if, for the selected smallest cycle, neither
   the localized search nor the full-scan fallback finds an edge of another
   cycle, the iteration reports a fatal error and performs no splice:
   next_edge, previous_edge, cycle_index and cycles stay unchanged, no
   default pair is spliced *)
NoCandidateReported ==
    [][(pc = "stitch" /\ iter < nb_cycles - 1 /\ NoCandidateFound)
           => /\ pc' = "fatal"
              /\ UNCHANGED <<next_edge, previous_edge, cycle_index, cycles>>
      ]_vars

(* the default pair (0, 0) has been spliced: the record of the cycle of edge
   0 is a tombstone, its edges still carry its label, and the loop has
   returned with the other cycle left apart *)
DefaultPairSpliced ==
    /\ pc = "done"
    /\ nb_cycles = 2
    /\ iter = 1
    /\ last = <<0, 0>>
    /\ cycle_index[0] = 0
    /\ cycles[0] = <<0, 0>>
    /\ cycles[1][2] # 0

----------------------------------------------------------------------------
(* compute_binary_grid applied on its own: first to a grid, then to its own
   result; iter counts the passes, call.arg is the grid a pass reads and
   call.res the grid it writes *)

MaxPass == 3

InitBinary ==
    /\ InitSmall
    /\ binary_grid = [s \in DOMAIN grid |-> 0]
    /\ points = <<>>
    /\ previous_edge = <<>>
    /\ next_edge = <<>>
    /\ cycle_index = <<>>
    /\ cycles = <<>>
    /\ ghost = [pt |-> NaNPoint, nx |-> NONE, cy |-> NONE]
    /\ pc = "binarize"
    /\ iter = 0
    /\ nb_cycles = 0
    /\ last = <<NONE, NONE>>
    /\ oob = {}
    /\ call = NoCall
    /\ files = {FieldFile, NpDir}
    /\ exit_code = NONE

(* compute_binary_grid(grid, binary_grid) *)
FirstPass ==
    /\ pc = "binarize"
    /\ iter = 0
    /\ binary_grid' = compute_binary_grid(grid)
    /\ call' = [f |-> "compute_binary_grid", arg |-> grid,
                res |-> compute_binary_grid(grid)]
    /\ iter' = 1
    /\ UNCHANGED <<shape, grid, points, previous_edge, next_edge, cycle_index,
                   cycles, ghost, pc, nb_cycles, last, oob, files, exit_code>>

(* compute_binary_grid(binary_grid, binary_grid) *)
NextPass ==
    /\ pc = "binarize"
    /\ iter >= 1
    /\ iter < MaxPass
    /\ binary_grid' = compute_binary_grid(binary_grid)
    /\ call' = [f |-> "compute_binary_grid", arg |-> binary_grid,
                res |-> compute_binary_grid(binary_grid)]
    /\ iter' = iter + 1
    /\ UNCHANGED <<shape, grid, points, previous_edge, next_edge, cycle_index,
                   cycles, ghost, pc, nb_cycles, last, oob, files, exit_code>>

NextBinary ==
    \/ FirstPass
    \/ NextPass

SpecBinary == InitBinary /\ [][NextBinary]_vars

(* C17, as amended. Applied to an already binarized grid, the rule of
   compute_binary_grid (value < 0 -> 0, otherwise 1) returns the grid of
   ones: it returns the binarized grid unchanged exactly when the first grid
   had no negative sample, and from the third pass on the result no longer
   changes *)
BinarizationSecondPass ==
    (pc = "binarize" /\ iter >= 2) =>
        /\ \A s \in DOMAIN call.res : call.res[s] = 1
        /\ iter = 2 =>
               ((call.res = call.arg) <=> (\A s \in DOMAIN grid : grid[s] >= 0))
        /\ iter >= 3 => call.res = call.arg

(* C17, as claimed. Binarization is idempotent: the rule of
   compute_binary_grid applied to an already binarized grid returns that
   grid unchanged, for every grid *)
BinarizationIdempotent ==
    (pc = "binarize" /\ iter >= 2) => call.res = call.arg

(* the second pass over the binarized grid of a grid that has samples of
   both signs: the 0 entries have become 1 *)
BinarizationSecondPassWitness ==
    /\ pc = "binarize"
    /\ iter = 2
    /\ \E s \in DOMAIN grid : grid[s] < 0
    /\ \E s \in DOMAIN grid : grid[s] >= 0
    /\ \E s \in DOMAIN call.arg : call.arg[s] = 0 /\ call.res[s] = 1

----------------------------------------------------------------------------
(* polylines.py: graph_to_polylines on the graph main has just extracted
   (the contour archive) or stitched (the cycle archive) *)

(* the edges point_index goes through in the n passes of the inner loop *)
RECURSIVE LinesWalk(_, _, _, _)
LinesWalk(nx, point_index, n, path) ==
    IF n = 0 THEN path
    ELSE LinesWalk(nx, nx[point_index], n - 1, Append(path, point_index))

(* the outer loop over the records k .. nb - 1: the edges of all the
   segments, in the order line_index goes through them *)
RECURSIVE LinesEdges(_, _, _, _, _)
LinesEdges(nx, cyc_records, k, nb, flat) ==
    IF k > nb - 1 THEN flat
    ELSE LinesEdges(nx, cyc_records, k + 1, nb,
             flat \o LinesWalk(nx, cyc_records[k][1], cyc_records[k][2], <<>>))

(* lines after the kernel: slot 2n holds the point of the edge of segment n
   and slot 2n + 1 the point of its successor; the stores past the end of
   lines are not in the field *)
compute_lines(lines, pts, nx, cyc_records, nb) ==
    LET flat == LinesEdges(nx, cyc_records, 0, nb, <<>>)
    IN  [j \in DOMAIN lines |->
            IF j < 2 * Len(flat)
            THEN IF j % 2 = 0 THEN pts[flat[j \div 2 + 1]]
                              ELSE pts[nx[flat[j \div 2 + 1]]]
            ELSE lines[j]]

(* lines has the shape of points and is filled with nan *)
graph_to_polylines(pts, nx, cyc_records, nb) ==
    compute_lines([j \in Edges |-> NaNPoint], pts, nx, cyc_records, nb)

GraphToPolylines ==
    /\ \/ pc = "stitch" /\ iter = 0
       \/ pc = "done"
    /\ LET flat == LinesEdges(next_edge, cycles, 0, nb_cycles, <<>>)
       IN  /\ call' = [f |-> "graph_to_polylines", arg |-> pc,
                       res |-> graph_to_polylines(points, next_edge, cycles,
                                                  nb_cycles)]
           /\ oob' = oob
                \cup (IF 2 * Len(flat) > E THEN {"lines"} ELSE {})
                \cup (IF \A n \in 1 .. Len(flat) : flat[n] \in Edges
                      THEN {} ELSE {"points", "next_edge"})
    /\ pc' = "lines"
    /\ UNCHANGED <<shape, grid, binary_grid, points, previous_edge, next_edge,
                   cycle_index, cycles, ghost, iter, nb_cycles, last, files,
                   exit_code>>

NextLines ==
    \/ Next
    \/ GraphToPolylines

SpecLines == Init /\ [][NextLines]_vars

(* the number of segments the records before record k have: the segments of
   record k are emitted after them *)
SegmentsBefore(k) ==
    LET before == {j \in AliveRecords : j < k}
        walks == [j \in before |-> FloodWalk(next_edge, cycles[j][1],
                                             <<cycles[j][1]>>).path]
    IN  Cardinality(UNION {{j} \X (1 .. Len(walks[j])) : j \in before})

(* C18. Polyline emission: for a graph that satisfies the closure invariant,
   compute_lines emits for each non-tombstone cycle exactly length segments
   from start_edge on, segment n being (points[e_n], points[next_edge[e_n]])
   with e_0 = start_edge and e_(n+1) = next_edge[e_n]; it emits nothing for
   the tombstones, so that the segments are those of the cycles and no more;
   and each cycle is self-closing: the endpoint of its last segment is the
   start point of its first segment *)
PolylineEmission ==
    (pc = "lines" /\ \A k \in AliveRecords : ClosedAndLabelled(k)) =>
        /\ \A k \in AliveRecords :
               LET e == FloodWalk(next_edge, cycles[k][1],
                                  <<cycles[k][1]>>).path
                   first == 2 * SegmentsBefore(k)
               IN  /\ \A n \in 0 .. cycles[k][2] - 1 :
                          /\ first + 2 * n + 1 \in DOMAIN call.res
                          /\ call.res[first + 2 * n] = points[e[n + 1]]
                          /\ call.res[first + 2 * n + 1]
                                 = points[next_edge[e[n + 1]]]
                   /\ first + 2 * cycles[k][2] - 1 \in DOMAIN call.res
                   /\ call.res[first + 2 * cycles[k][2] - 1] = call.res[first]
        /\ \A j \in DOMAIN call.res :
               j >= 2 * Cardinality(LabelledEdges) => call.res[j] = NaNPoint

(* every index of the graph in range and every record closed: the cycles
   have more than E / 2 edges together, and the endpoint of the last segment
   was stored past the end of lines *)
LastSegmentCut ==
    /\ pc = "lines"
    /\ call.arg = "stitch"
    /\ oob = {"binary_grid", "lines"}
    /\ \A k \in AliveRecords : ClosedAndLabelled(k)
    /\ 2 * Cardinality(LabelledEdges) = E + 1
    /\ call.res[E - 1] # NaNPoint

----------------------------------------------------------------------------
(* main.py: the driver, from the parsed command line to the end of the
   process *)

(* the kernels have not run when main starts; the field file and the
   directory of the archives may be missing *)
InitMain ==
    /\ files \in SUBSET {FieldFile, NpDir}
    /\ InitSmall \/ InitCorners
    /\ binary_grid = [s \in DOMAIN grid |-> 0]
    /\ points = <<>>
    /\ previous_edge = <<>>
    /\ next_edge = <<>>
    /\ cycle_index = <<>>
    /\ cycles = <<>>
    /\ ghost = [pt |-> NaNPoint, nx |-> NONE, cy |-> NONE]
    /\ pc = "main"
    /\ iter = 0
    /\ nb_cycles = 0
    /\ last = <<NONE, NONE>>
    /\ oob = {}
    /\ call = NoCall
    /\ exit_code = NONE

(* the handler of FileNotFoundError prints its message and main falls off
   its end: the interpreter exits with status 0 *)
FileNotFound ==
    /\ pc' = "exit"
    /\ exit_code' = 0

(* grid = numpy_to_field(file_name): np.load raises FileNotFoundError when
   the file is missing *)
MainLoad ==
    /\ pc = "main"
    /\ IF FieldFile \in files
       THEN pc' = "binary" /\ exit_code' = exit_code
       ELSE FileNotFound
    /\ UNCHANGED <<shape, grid, pipeline, call, files>>

(* data_structure_to_numpy(..., file_name + "_contour"): np.savez raises
   FileNotFoundError when the directory is missing *)
MainSaveContour ==
    /\ pc = "stitch"
    /\ iter = 0
    /\ ContourArchive \notin files
    /\ IF NpDir \in files
       THEN /\ files' = files \cup {ContourArchive}
            /\ UNCHANGED <<pc, exit_code>>
       ELSE FileNotFound /\ files' = files
    /\ UNCHANGED <<shape, grid, pipeline, call>>

(* data_structure_to_numpy(..., file_name + "_cycle"), the last statement of
   main *)
MainSaveCycle ==
    /\ pc = "done"
    /\ IF NpDir \in files
       THEN /\ files' = files \cup {CycleArchive}
            /\ pc' = "exit"
            /\ exit_code' = 0
       ELSE FileNotFound /\ files' = files
    /\ UNCHANGED <<shape, grid, pipeline, call>>

(* the stitching starts after the contour archive is written *)
NextMain ==
    \/ MainLoad
    \/ ComputeBinaryGrid
    \/ ComputePoints
    \/ ComputeAdjacency
    \/ BrowseGrid
    \/ CompactCycles
    \/ MainSaveContour
    \/ StitchIteration /\ ContourArchive \in files
    \/ StitchReturn /\ ContourArchive \in files
    \/ MainSaveCycle

SpecMain == InitMain /\ [][NextMain]_vars

(* C19. Driver exit status: main terminates with exit code 0 after extract,
   save contour, stitch and save cycle have succeeded, and it terminates with
   a nonzero exit code and without writing an archive when the input file
   data/fields/<name>.npy is missing *)
DriverExitStatus ==
    pc = "exit" =>
        /\ exit_code # NONE
        /\ CycleArchive \in files => exit_code = 0
        /\ FieldFile \notin files =>
               /\ exit_code # 0
               /\ files \cap {ContourArchive, CycleArchive} = {}

(* the field file is missing and the process has ended with status 0,
   without an archive *)
MissingInputExitsZero ==
    /\ pc = "exit"
    /\ FieldFile \notin files
    /\ NpDir \in files
    /\ files \cap {ContourArchive, CycleArchive} = {}
    /\ exit_code = 0

----------------------------------------------------------------------------
(* The splice of one iteration *)

(* pair names an edge of each of two different cycles *)
DifferentCycles(pair) ==
    /\ pair[1] \in Edges
    /\ pair[2] \in Edges
    /\ cycle_index[pair[1]] \in AliveRecords
    /\ cycle_index[pair[2]] \in AliveRecords
    /\ cycle_index[pair[1]] # cycle_index[pair[2]]

(* C20. Splice rewrite and its frame: a splice of I = (i1 -> i2) and
   J = (j1 -> j2), edges of two different cycles, sets next_edge[i1] = j2,
   prev_edge[j2] = i1, next_edge[j1] = i2 and prev_edge[i2] = j1; every other
   entry of next_edge and of prev_edge is unchanged, points is unchanged, and
   cycle_index changes only on edges that carried the label of J's cycle *)
SpliceRewriteAndFrame ==
    [][(pc = "stitch" /\ iter' = iter + 1 /\ pc' = "stitch"
           /\ DifferentCycles(last')) =>
          LET i1 == last'[1]
              j1 == last'[2]
              i2 == next_edge[i1]
              j2 == next_edge[j1]
          IN  /\ next_edge' = [e \in DOMAIN next_edge |->
                                  IF e = i1 THEN j2
                                  ELSE IF e = j1 THEN i2 ELSE next_edge[e]]
              /\ previous_edge' = [e \in DOMAIN previous_edge |->
                                      IF e = j2 THEN i1
                                      ELSE IF e = i2 THEN j1
                                      ELSE previous_edge[e]]
              /\ points' = points
              /\ \A e \in DOMAIN cycle_index :
                     cycle_index'[e] # cycle_index[e] =>
                         cycle_index[e] = cycle_index[j1]]_vars

(* a splice of two closed cycles has been done, every index in range: I's
   cycle has kept its label and J's edges have taken it *)
SpliceRewriteWitness ==
    /\ pc = "stitch"
    /\ iter = 1
    /\ oob \subseteq {"binary_grid"}
    /\ last[1] \in Edges
    /\ last[2] \in Edges
    /\ previous_edge[next_edge[last[1]]] = last[1]
    /\ previous_edge[next_edge[last[2]]] = last[2]
    /\ cycle_index[last[1]] = cycle_index[last[2]]
    /\ \A k \in AliveRecords : ClosedAndLabelled(k)

----------------------------------------------------------------------------
(* The catalog under a splice *)

(* an iteration of the stitching loop that has ended *)
SpliceStep == pc = "stitch" /\ iter' = iter + 1 /\ pc' = "stitch"

(* C21. Catalog merge: each splice of the pair (I, J) with a = cycle_index[I], the
   smallest cycle chosen by find_minimal_cycle, and b = cycle_index[J] # a
   sets cycles[a].length to the sum of the two previous lengths, keeps
   cycles[a].start_edge, sets cycles[b] = (0, 0), leaves every other record
   unchanged, and the preserved start_edge lies on the merged ring *)
CatalogMerge ==
    [][(SpliceStep /\ cycle_index[last'[1]] # cycle_index[last'[2]]) =>
          LET a == cycle_index[last'[1]]
              b == cycle_index[last'[2]]
          IN  /\ a = find_minimal_cycle(cycles, nb_cycles)
              /\ cycles' = [k \in DOMAIN cycles |->
                               IF k = b THEN <<0, 0>>
                               ELSE IF k = a
                                    THEN <<cycles[a][1],
                                           cycles[a][2] + cycles[b][2]>>
                                    ELSE cycles[k]]
              /\ cycles'[a][1] \in Visited(next_edge', last'[1])]_vars

(* the pair spliced had J outside the edges: record a has the sum of the
   lengths and its start edge, and the ring through I does not pass through
   that start edge *)
StartEdgeOffRing ==
    /\ pc = "stitch"
    /\ iter = 1
    /\ last[1] \in Edges
    /\ last[2] \notin Edges
    /\ cycles[cycle_index[last[1]]][2] # 0
    /\ cycles[cycle_index[last[1]]][1] \notin Visited(next_edge, last[1])

----------------------------------------------------------------------------
(* find_minimal_cycle on catalogs of up to MaxRecords records, of lengths up
   to MaxLength; length 0 is the tombstone *)

MaxRecords == 4
MaxLength == 3

InitCatalog ==
    /\ \E nb \in 1 .. MaxRecords :
           /\ nb_cycles = nb
           /\ \E lengths \in [0 .. nb - 1 -> 0 .. MaxLength] :
                  cycles = [k \in -1 .. nb - 1 |->
                               IF k = -1 \/ lengths[k] = 0 THEN <<0, 0>>
                               ELSE <<k, lengths[k]>>]
    /\ shape = <<1, 1>>
    /\ grid = <<>>
    /\ binary_grid = <<>>
    /\ points = <<>>
    /\ previous_edge = <<>>
    /\ next_edge = <<>>
    /\ cycle_index = <<>>
    /\ ghost = [pt |-> NaNPoint, nx |-> NONE, cy |-> NONE]
    /\ pc = "catalog"
    /\ iter = 0
    /\ last = <<NONE, NONE>>
    /\ oob = {}
    /\ call = NoCall
    /\ files = {FieldFile, NpDir}
    /\ exit_code = NONE

(* minimal_cycle_index = find_minimal_cycle(cycles, nb_cycles) *)
FindMinimalCycle ==
    /\ pc = "catalog"
    /\ call' = [f |-> "find_minimal_cycle", arg |-> <<cycles, nb_cycles>>,
                res |-> find_minimal_cycle(cycles, nb_cycles)]
    /\ UNCHANGED <<shape, pc, pipeline, files, exit_code>>

NextCatalog == FindMinimalCycle

SpecCatalog == InitCatalog /\ [][NextCatalog]_vars

(* C22. find_minimal_cycle returns the id of the non-tombstone record
   (length # 0) of smallest length among cycles[0..K-1], and of the smallest
   id among the records of that length *)
MinimalCycle ==
    (call.f = "find_minimal_cycle" /\ AliveRecords # {}) =>
        /\ call.res \in AliveRecords
        /\ \A k \in AliveRecords :
               \/ cycles[call.res][2] < cycles[k][2]
               \/ cycles[call.res][2] = cycles[k][2] /\ call.res <= k

(* a tombstone in front of two records of the same least length, and a
   longer one: the second record is returned *)
MinimalCycleWitness ==
    /\ call.f = "find_minimal_cycle"
    /\ nb_cycles = 4
    /\ cycles[0][2] = 0
    /\ cycles[1][2] = 2
    /\ cycles[2][2] = 3
    /\ cycles[3][2] = 2
    /\ call.res = 1

----------------------------------------------------------------------------
(* The scope of the search for the pair to splice *)

(* the edges the search goes through: length steps from the start edge of
   the smallest cycle *)
TargetWalk ==
    LET m == find_minimal_cycle(cycles, nb_cycles)
        walk == LinesWalk(next_edge, cycles[m][1], cycles[m][2], <<>>)
    IN  {walk[n] : n \in 1 .. Len(walk)}

(* the pairs the localized search compares: J is at an offset of the
   5 x 5 x 2 neighbourhood of I and its cycle_index entry passes the filter *)
LocalPairs ==
    {p \in UNION {{<<i, NeighbourIndex(shape, edge_1d_to_3d_index(shape, i), k)>> :
                      k \in Candidates(cycle_index, shape, i)} :
                  i \in TargetWalk} :
        Less(Energy(points, next_edge, p[1], p[2]), Inf)}

(* the pairs the full scan compares *)
ScanPairs ==
    {p \in TargetWalk \X Edges :
        /\ cycle_index[p[2]] \notin {cycle_index[p[1]], NONE}
        /\ Less(Energy(points, next_edge, p[1], p[2]), Inf)}

LeastOf(p, pairs) ==
    /\ p \in pairs
    /\ \A q \in pairs : Energy(points, next_edge, p[1], p[2])
                            <= Energy(points, next_edge, q[1], q[2])

(* C23 as stated. Spliced pair is the global minimum: in every iteration the
   pair handed to the splice has minimum splice cost over all pairs (I, J)
   with I an edge of the smallest cycle m and J any labelled edge of a
   different non-tombstone cycle, not only over the pairs inside the
   5 x 5 x 2 neighbourhoods *)
SplicedPairIsGlobalMinimum ==
    [][(pc = "stitch" /\ iter' = iter + 1 /\ CandidatePairs # {})
           => last' \in CheapestPairs]_vars

(* C23. Spliced pair is the minimum of the search that ran: in every
   iteration, when some edge of the walk of the smallest cycle has a
   candidate in its 5 x 5 x 2 neighbourhood, the pair handed to the splice
   has minimum splice cost over the pairs inside the neighbourhoods; only
   when there is none it has minimum splice cost over all the pairs of the
   full scan *)
SplicedPairIsSearchMinimum ==
    [][(pc = "stitch" /\ iter' = iter + 1) =>
          /\ LocalPairs # {} => LeastOf(last', LocalPairs)
          /\ (LocalPairs = {} /\ ScanPairs # {}) => LeastOf(last', ScanPairs)]_vars

(* every index in range: the pair (21, 99) has been spliced, and with the
   pointers as they were before the splice the pair (21, 39), whose edge 39
   is three columns away from edge 21, costs less *)
CheaperPairOutside ==
    /\ pc = "stitch"
    /\ iter = 1
    /\ shape = FarShape
    /\ InRange
    /\ last = <<21, 99>>
    /\ LET before == [next_edge EXCEPT ![last[1]] = next_edge[last[2]],
                                       ![last[2]] = next_edge[last[1]]]
       IN  Energy(points, before, 21, 39) < Energy(points, before, 21, 99)

(* C24. Localized search filters its candidates: for every edge I of the
   target cycle and every offset of the 5 x 5 x 2 neighbourhood, a neighbour
   whose 3d index is out of range is skipped without reading cycle_index,
   next_edge or points at its flat index, so that every array access of the
   search uses an index in [0, E); and a neighbour is used as candidate J
   only if cycle_index[J] # NONE and cycle_index[J] # cycle_index[I] *)
SearchFiltersCandidates ==
    [][(pc = "stitch" /\ iter' = iter + 1) =>
          /\ SearchOob(next_edge, cycle_index, cycles,
                       find_minimal_cycle(cycles, nb_cycles), shape) = {}
          /\ \A p \in LocalPairs :
                 /\ p[2] \in Edges
                 /\ cycle_index[p[2]] \notin {NONE, cycle_index[p[1]]}]_vars

(* the walk of the target cycle stayed on the edges, the search read
   cycle_index at the flat index -1 of a neighbour outside the grid, and that
   index is the J of the pair spliced *)
OutsideNeighbourSpliced ==
    /\ pc = "stitch"
    /\ iter = 1
    /\ oob = {"binary_grid", "cycle_index"}
    /\ last[1] \in Edges
    /\ last[2] = -1

----------------------------------------------------------------------------
(* The fallback of the search *)

TargetCycle == find_minimal_cycle(cycles, nb_cycles)

(* the full scan is executed *)
FullScanRuns ==
    UsesFallback(points, next_edge, cycle_index, cycles, TargetCycle, shape)

(* some edge of the target cycle has, at an offset of its neighbourhood, an
   edge of the grid that carries the label of another cycle *)
ValidCandidateFound ==
    \E i \in TargetWalk :
        \E k \in 0 .. 49 :
            LET j == NeighbourIndex(shape, edge_1d_to_3d_index(shape, i), k)
            IN  /\ j \in Edges
                /\ cycle_index[j] \notin {NONE, cycle_index[i]}

(* C25. Fallback condition: the full scan over all E edges is executed if and
   only if the localized search found no valid candidate for any edge of the
   target cycle; in that case it walks the whole target cycle again from its
   start_edge and returns the minimum-cost pair over all labelled edges of
   other cycles; when the localized search found at least one candidate, the
   returned pair is the one found by the localized search *)
FallbackCondition ==
    [][(pc = "stitch" /\ iter' = iter + 1) =>
          /\ FullScanRuns <=> ~ValidCandidateFound
          /\ FullScanRuns =>
                 /\ LocalSearch(points, next_edge, cycle_index, cycles,
                                TargetCycle, shape).cur = cycles[TargetCycle][1]
                 /\ ScanPairs # {} => LeastOf(last', ScanPairs)
          /\ ~FullScanRuns => LeastOf(last', LocalPairs)]_vars

(* the only neighbour that passed the filter is the flat index -1 of an
   offset outside the grid: no edge of the grid is a candidate, the full scan
   did not run and the pair spliced ends outside the edges *)
FullScanSkipped ==
    /\ pc = "stitch"
    /\ iter = 1
    /\ nb_cycles = 2
    /\ last[1] \in Edges
    /\ last[2] = -1
    /\ \A i \in Edges : cycle_index[i] = cycle_index[last[1]] =>
           \A k \in 0 .. 49 :
               LET j == NeighbourIndex(shape, edge_1d_to_3d_index(shape, i), k)
               IN  j \in Edges => cycle_index[j] \in {NONE, cycle_index[i]}

----------------------------------------------------------------------------
(* The splice cost and the length of the polylines *)

(* what the rewrite next_edge[I1] = nx[J1], next_edge[J1] = nx[I1] adds to the
   total length of the segments (pts[e], pts[nx[e]]) *)
AddedPerimeter(pts, nx, I1, J1) ==
    Sub(Add(euclidean_norm(pts[I1], pts[nx[J1]]),
            euclidean_norm(pts[J1], pts[nx[I1]])),
        Add(euclidean_norm(pts[I1], pts[nx[I1]]),
            euclidean_norm(pts[J1], pts[nx[J1]])))

(* C26. Cost equals added perimeter: for the pair (I, J) spliced in an
   iteration, the splice cost computed for that pair equals the change of
   total polyline length caused by the rewrite actually performed, that is
   dist(i1, j2) + dist(j1, i2) - dist(i1, i2) - dist(j1, j2) where
   i2 = next(i1) and j2 = next(j1) before the splice *)
CostIsAddedPerimeter ==
    [][(pc = "stitch" /\ iter' = iter + 1
           /\ Less(Energy(points, next_edge, last'[1], last'[2]), Inf)) =>
          Energy(points, next_edge, last'[1], last'[2])
              = AddedPerimeter(points, next_edge, last'[1], last'[2])]_vars

(* the second splice on the 6 x 6 grid with three islands: both edges of the
   pair are edges of the grid with points, and with the pointers as they
   were before the splice the cost of the pair is below the perimeter that
   the rewrite adds *)
CostBelowAddedPerimeter ==
    /\ pc = "stitch"
    /\ iter = 2
    /\ shape = IslandShape
    /\ ghost.cy = NONE
    /\ last = <<27, 64>>
    /\ LET before == [next_edge EXCEPT ![last[1]] = next_edge[last[2]],
                                       ![last[2]] = next_edge[last[1]]]
       IN  /\ before[27] = 67
           /\ before[64] = 50
           /\ Energy(points, before, 27, 64)
                  < AddedPerimeter(points, before, 27, 64)

----------------------------------------------------------------------------
(* stitch_all_cycles_with_neighbourhood called once more, on the graph the
   first call has stitched *)

(* the entries of the four fields the stitching writes, without the cells
   next to them in memory *)
Graph ==
    [next_edge |-> [e \in Edges |-> next_edge[e]],
     previous_edge |-> [e \in Edges |-> previous_edge[e]],
     cycle_index |-> [e \in Edges |-> cycle_index[e]],
     cycles |-> [k \in 0 .. nb_cycles - 1 |-> cycles[k]]]

(* the kernel takes nb_cycles from the shape of cycles and starts its loop
   again; call.arg keeps the graph it was handed *)
StitchAgain ==
    /\ pc = "done"
    /\ call = NoCall
    /\ call' = [f |-> "stitch_all_cycles_with_neighbourhood", arg |-> Graph,
                res |-> <<>>]
    /\ pc' = "stitch"
    /\ iter' = 0
    /\ last' = <<NONE, NONE>>
    /\ UNCHANGED <<shape, grid, binary_grid, points, previous_edge, next_edge,
                   cycle_index, cycles, ghost, nb_cycles, oob, files,
                   exit_code>>

NextAgain ==
    \/ Next
    \/ StitchAgain

(* the grids of Init but the 8 x 8 ones *)
InitAgain == Init /\ shape # DenseShape

SpecAgain == InitAgain /\ [][NextAgain]_vars

(* the second call was handed a catalog with exactly one non-tombstone
   record *)
SecondCallOnOneCycle ==
    /\ call.f = "stitch_all_cycles_with_neighbourhood"
    /\ Cardinality({k \in DOMAIN call.arg.cycles :
                       call.arg.cycles[k][2] # 0}) = 1

(* C27. Done is terminal: the stitching engine performs a splice only in a
   state with more than one non-tombstone record; invoked on a graph whose
   catalog already holds exactly one non-tombstone record (with or without
   tombstones, such as the result of a previous stitching run), it leaves
   next_edge, prev_edge, cycle_index and cycles unchanged, so that stitching
   is idempotent *)
DoneIsTerminal ==
    [][/\ (pc = "stitch" /\ iter' = iter + 1) =>
              Cardinality(AliveRecords) > 1
       /\ SecondCallOnOneCycle' => (pc' # "hang" /\ Graph' = call'.arg)]_vars

(* two contours stitched into one cycle by the first call, edge 0 without
   label: the second call has spliced the pair (0, 0) with a single
   non-tombstone record in the catalog, and its relabel walk, gone to
   index -1, does not end *)
SecondCallSplices ==
    /\ SecondCallOnOneCycle
    /\ nb_cycles = 2
    /\ call.arg.cycle_index[0] = NONE
    /\ \A k \in 0 .. 1 : cycles[k] = call.arg.cycles[k]
    /\ ghost.cy = NONE
    /\ iter = 1
    /\ last = <<0, 0>>
    /\ pc = "hang"

----------------------------------------------------------------------------
(* Cycle discovery: browse_grid, flood, count_cycles, fill_final_cycles *)

(* the cells browse_grid takes for contour cells that are no saddle *)
ContourCells ==
    {c \in Cells : Configuration(binary_grid, c) \in (1 .. 14) \ {5, 10}}

(* the records written by the floods, before the catalog is compacted *)
Discovered == {k \in DOMAIN cycles : k >= 0 /\ cycles[k][2] # 0}

(* the edges the flood of record k went over *)
FloodOf(k) == Visited(next_edge, cycles[k][1]) \cap Edges

(* the contour cells with a side on the flood of record k, by their place in
   the row-major order, and the first of them *)
FloodCells(k) ==
    {j \in 1 .. W * H :
        /\ CellSeq(W, H)[j] \in ContourCells
        /\ \E sd \in Sides : SideEdge(CellSeq(W, H)[j], sd) \in FloodOf(k)}

FirstFloodCell(k) == CHOOSE j \in FloodCells(k) : \A i \in FloodCells(k) : j <= i

(* browse_grid has been through the cells, or is in a flood that never ends;
   the catalog is not compacted yet *)
Browsed ==
    pc \in {"compact", "hang"} /\ cycles # <<>> /\ -1 \notin DOMAIN cycles

(* the seed of the cell is a side its contour edge ends on *)
SeedOnContourEdge(cell) ==
    LET seed == SeedEdge(Configuration(binary_grid, cell),
                         index2d_to_edge_index(cell, shape))
    IN  \E sd \in Sides :
            \/ next_edge[seed] = SideEdge(cell, sd)
            \/ next_edge[SideEdge(cell, sd)] = seed

(* C28. Cycle discovery records each closed contour once: when browse_grid
   has gone through the cells in row-major order, every non-saddle contour
   cell has a labelled edge and the floods are the ones started at the first
   such cell of each contour; the seed of a flood is the side given by the
   case rule of its cell and is an end of the contour edge of that cell; the
   record ids are 0 .. K - 1 in the order of discovery; no edge is labelled
   by two floods; and the compacted catalog has exactly K records, none of
   them a tombstone *)
CycleDiscovery ==
    /\ Browsed =>
           \A k \in Discovered : \A e \in FloodOf(k) : cycle_index[e] = k
    /\ pc = "compact" =>
           LET K == Cardinality(Discovered)
           IN  /\ Discovered = 0 .. K - 1
               /\ \A c \in ContourCells :
                      \E sd \in Sides : cycle_index[SideEdge(c, sd)] # NONE
               /\ \A k \in Discovered :
                      /\ FloodCells(k) # {}
                      /\ LET cell == CellSeq(W, H)[FirstFloodCell(k)]
                         IN  /\ cycles[k][1] =
                                    SeedEdge(Configuration(binary_grid, cell),
                                             index2d_to_edge_index(cell, shape))
                             /\ SeedOnContourEdge(cell)
               /\ \A j, k \in Discovered :
                      j < k => FirstFloodCell(j) < FirstFloodCell(k)
               /\ \A j, k \in Discovered :
                      j # k => FloodOf(j) \cap FloodOf(k) = {}
    /\ (pc = "stitch" /\ iter = 0 /\ call = NoCall) =>
           /\ nb_cycles = Cardinality({cycle_index[e] : e \in LabelledEdges})
           /\ DOMAIN cycles = -1 .. nb_cycles - 1
           /\ \A k \in 0 .. nb_cycles - 1 : cycles[k][2] # 0

(* two contours cut by the border: the flood of the second one has left its
   chain through index -1, has come into the edges of record 0 and has set
   their label to 1; it never comes back to its seed *)
EdgeLabelledTwice ==
    /\ Browsed
    /\ pc = "hang"
    /\ Discovered = {0}
    /\ \E e \in FloodOf(0) : cycle_index[e] = 1

----------------------------------------------------------------------------
(* compute_points as the parallel kernel it is: the loop instances of the
   cells run one after the other in any order. call.arg holds the cells
   whose instance has run and call.res, for every slot of points, the cells
   that have stored into it. The instances of the last row and of the last
   column fail the test of the kernel and store nothing; they are left out *)

InitPoints ==
    /\ InitSmall
    /\ binary_grid = [s \in DOMAIN grid |-> 0]
    /\ points = <<>>
    /\ previous_edge = <<>>
    /\ next_edge = <<>>
    /\ cycle_index = <<>>
    /\ cycles = <<>>
    /\ ghost = [pt |-> NaNPoint, nx |-> NONE, cy |-> NONE]
    /\ pc = "binary"
    /\ iter = 0
    /\ nb_cycles = 0
    /\ last = <<NONE, NONE>>
    /\ oob = {}
    /\ call = NoCall
    /\ files = {FieldFile, NpDir}
    /\ exit_code = NONE

(* the kernel is launched on the field to_graph has filled with nan; of the
   cells -1 and E only those of points count here *)
PointsLaunch ==
    /\ pc = "points"
    /\ \E gh \in {g \in Ghosts : g.nx = NONE} :
        /\ ghost' = gh
        /\ points' = Filled(NaNPoint, gh.pt)
    /\ call' = [f |-> "compute_points", arg |-> {},
                res |-> [i \in Idx |-> {}]]
    /\ pc' = "points_cells"
    /\ UNCHANGED <<shape, grid, binary_grid, previous_edge, next_edge,
                   cycle_index, cycles, iter, nb_cycles, last, oob, files,
                   exit_code>>

(* the loop instance of one cell *)
PointsInstance ==
    /\ pc = "points_cells"
    /\ \E cell \in Cells \ call.arg :
        LET stores == PointsCell(grid, binary_grid, cell)
            slots == {stores[j][2] : j \in 1 .. Len(stores)}
        IN  /\ points' = ApplyStores(points, <<stores>>, "points")
            /\ call' = [call EXCEPT
                           !.arg = @ \cup {cell},
                           !.res = [i \in Idx |->
                                       IF i \in slots THEN @[i] \cup {cell}
                                                      ELSE @[i]]]
    /\ UNCHANGED <<shape, grid, binary_grid, previous_edge, next_edge,
                   cycle_index, cycles, ghost, pc, iter, nb_cycles, last, oob,
                   files, exit_code>>

(* every instance has run: the kernel returns *)
PointsJoin ==
    /\ pc = "points_cells"
    /\ call.arg = Cells
    /\ pc' = "adjacency"
    /\ UNCHANGED <<shape, grid, binary_grid, points, previous_edge, next_edge,
                   cycle_index, cycles, ghost, iter, nb_cycles, last, oob,
                   call, files, exit_code>>

NextPoints ==
    \/ ComputeBinaryGrid
    \/ PointsLaunch
    \/ PointsInstance
    \/ PointsJoin

SpecPoints == InitPoints /\ [][NextPoints]_vars

(* the two sides a cell computes, each with its slot and its two samples *)
OwnSides(cell) ==
    LET x == cell[1]
        y == cell[2]
        edge_indexes == index2d_to_edge_index(cell, shape)
    IN  {[slot |-> edge_indexes[2], a |-> <<x, y + 1>>, b |-> <<x + 1, y + 1>>],
         [slot |-> edge_indexes[3], a |-> <<x + 1, y + 1>>, b |-> <<x + 1, y>>]}

(* C29. Race freedom of point computation: in every interleaving of the
   loop instances of compute_points no slot of points is stored into by two
   cells; an instance stores the interpolated point of a side exactly when
   the two samples of the side have different binary values, and then the
   two grid values differ; and when all instances have run points is the
   field the serialized loop computes from grid and binary_grid, whatever
   the order was *)
PointsRaceFree ==
    call.f = "compute_points" =>
        /\ \A i \in Idx : Cardinality(call.res[i]) <= 1
        /\ \A cell \in call.arg : \A sd \in OwnSides(cell) :
               /\ cell \in call.res[sd.slot] <=>
                      binary_grid[sd.a] # binary_grid[sd.b]
               /\ cell \in call.res[sd.slot] =>
                      /\ grid[sd.a] # grid[sd.b]
                      /\ points[sd.slot] =
                             linear_interpolation(grid, sd.a, sd.b)
        /\ pc = "adjacency" =>
               points = compute_points(grid, binary_grid,
                                       Filled(NaNPoint, ghost.pt))

(* a 3 x 3 grid on which every one of the four cells has stored a point, two
   of them two points *)
PointsRaceFreeWitness ==
    /\ call.f = "compute_points"
    /\ pc = "adjacency"
    /\ shape = <<3, 3>>
    /\ \A cell \in Cells : \E i \in Edges : call.res[i] = {cell}
    /\ Cardinality({i \in Edges : call.res[i] # {}}) >= 6

----------------------------------------------------------------------------
(* The walks of flood *)

(* C30. Flood never follows a NONE pointer: for every input grid, the grids
   whose zero contour touches the border included, browse_grid returns, and
   every flood it has started is back at its seed over edges of the grid
   whose next_edge is not NONE; no flood has read next_edge or written
   cycle_index at index -1 *)
FloodFollowsPointers ==
    Browsed =>
        /\ pc = "compact"
        /\ oob \cap {"next_edge", "cycle_index"} = {}
        /\ \A k \in Discovered :
               LET w == FloodWalk(next_edge, cycles[k][1], <<cycles[k][1]>>)
               IN  /\ ~w.hang
                   /\ \A j \in 1 .. Len(w.path) :
                          /\ w.path[j] \in Edges
                          /\ next_edge[w.path[j]] # NONE

(* the 2 x 2 grid with one sample at 0 and three at -1: the flood seeded at
   edge 0 has gone to edge 6, whose next_edge is NONE, then to index -1,
   where it has written its label, and it follows the NONE it has read
   there for ever *)
FloodLeftTheGrid ==
    /\ Browsed
    /\ shape = <<2, 2>>
    /\ grid[<<0, 0>>] = 0
    /\ pc = "hang"
    /\ next_edge[0] = 6
    /\ next_edge[6] = NONE
    /\ ghost.nx = NONE
    /\ ghost.cy # 0
    /\ cycle_index[-1] = 0

====
